---- MODULE Spec2Model ----
(***************************************************************************)
(* The abstract-enrichment pipeline of scripts/fetch_papers.py:            *)
(* main, DBLPFetcher.enrich_papers_with_abstracts, the source clients it   *)
(* calls, and the checkpoint file written by save_papers and read back by   *)
(* load_papers.                                                             *)
(*                                                                         *)
(* A paper is a record of the dictionary keys the pipeline reads or        *)
(* writes.  A key that is missing from the dictionary has the value        *)
(* ABSENT, Python's None is NULL.  Strings that the code only tests for    *)
(* truthiness or compares are tokens; a DOI and a proceedings URL are      *)
(* sequences of tokens so that their normalisation is computed.            *)
(* The year, authors, venue and url keys are never read by the tiers'      *)
(* selection or merge code and are left out.                               *)
(***************************************************************************)
EXTENDS Integers, Sequences, FiniteSets, TLC

\* ------------------------------------------------------------------ bounds
\* Largest number of entries the bibliographic index lists.
MaxPapers == 2
\* Number of successive executions of main that are followed.
MaxRuns == 2
\* config.OPENALEX_BATCH_SIZE (100 in config.py:226), scaled to the collection size.
OPENALEX_BATCH_SIZE == 1
\* config.ABSTRACT_PROGRESS_LOG_INTERVAL (100 in config.py:264), scaled.
ABSTRACT_PROGRESS_LOG_INTERVAL == 1
\* config.INCREMENTAL_SAVE_INTERVAL (100 in config.py:265), scaled.
INCREMENTAL_SAVE_INTERVAL == 2

\* ------------------------------------------------------- program constants
ENABLE_INCREMENTAL_SAVES == TRUE
ENABLE_RECOVERY_MODE == TRUE
OPENREVIEW_SEARCH_ENABLED == TRUE
OPENREVIEW_VENUES == {"iclr", "icml"}
\* fetch_abstract_openalex_by_title skips titles shorter than this.
MIN_TITLE_LEN == 10

\* ------------------------------------------------------------------ values
NULL == "None"
ABSENT == "absent"
EmptyStr == ""
\* The text of an abstract a source delivers.
TEXT == "text"
\* A citation count a source delivers.
CITES == "7"

\* dblp_venue of the conferences of config.CONFERENCES: an OpenReview venue,
\* the proceedings-site venue and one that is neither.
Venues == {"iclr", "neurips", "cvpr"}

\* Python truthiness of a string-or-None value (dict.get gives None for a
\* missing key).
Truthy(v) == v \notin {NULL, ABSENT, EmptyStr}
\* A string field the model keeps as a sequence of pieces, when the
\* dictionary holds None for it and when the dictionary lacks the key.
NoneSeq == <<NULL>>
AbsentSeq == <<ABSENT>>
\* Python truthiness of a token sequence standing for a string
\* (dict.get gives None for a missing key).
TruthySeq(s) == s \notin {<<>>, NoneSeq, AbsentSeq}

\* len(title) of the titles the index lists.
StrLen(t) ==
    CASE t = EmptyStr -> 0
      [] t = "Short" -> 5
      [] OTHER -> 14

\* ------------------------------------------------------------ DOI strings
\* Tokens of a DOI string: "R" is the resolver prefix https://doi.org/,
\* " " is white space, the others are letters.
RESOLVER == "R"
UpperOf == <<"A", "B", "C", "D">>
LowerOf == <<"a", "b", "c", "d">>

RECURSIVE RemoveToken(_, _)
\* str.replace(tok, '')
RemoveToken(s, tok) ==
    IF s = <<>> THEN <<>>
    ELSE IF Head(s) = tok THEN RemoveToken(Tail(s), tok)
    ELSE <<Head(s)>> \o RemoveToken(Tail(s), tok)

RECURSIVE LStrip(_)
LStrip(s) == IF s # <<>> /\ Head(s) = " " THEN LStrip(Tail(s)) ELSE s

RECURSIVE RStrip(_)
RStrip(s) ==
    IF s # <<>> /\ s[Len(s)] = " " THEN RStrip(SubSeq(s, 1, Len(s) - 1)) ELSE s

\* str.strip()
Strip(s) == RStrip(LStrip(s))

LowerChar(c) ==
    IF \E k \in 1..Len(UpperOf) : UpperOf[k] = c
    THEN LowerOf[CHOOSE k \in 1..Len(UpperOf) : UpperOf[k] = c]
    ELSE c

\* str.lower()
Lower(s) == [k \in 1..Len(s) |-> LowerChar(s[k])]

\* paper.get('doi', '').replace('https://doi.org/', '').strip().lower()
NormalizeDoi(doi) == Lower(Strip(RemoveToken(doi, RESOLVER)))

\* work.get("doi", "").replace("https://doi.org/", "").lower()
WorkDoi(doi) == Lower(RemoveToken(doi, RESOLVER))

\* paper.get('doi', '').replace('https://doi.org/', '').strip()
SemanticScholarDoi(doi) == Strip(RemoveToken(doi, RESOLVER))

\* ------------------------------------------------------ proceedings URLs
\* A proceedings URL is <<"/hash/", h, "-Abstract", t>> after an arbitrary
\* prefix; the tokens of HexHashes stand for 32 lower-case hexadecimal digits.
HexHashes == <<"h1", "h2", "h3", "h4">>
IsHex32(h) == \E k \in 1..Len(HexHashes) : HexHashes[k] = h
Tracks == {"-Conference", "-Datasets_and_Benchmarks"}

\* group(2) of the first pattern: the track without the hyphen before it.
TrackName(tok) ==
    IF tok = "-Conference" THEN "Conference" ELSE "Datasets_and_Benchmarks"

\* re.search: the leftmost place from j on where the pattern matches, 0 if none.
\* r'/hash/([a-f0-9]{32})-Abstract-(Conference|Datasets_and_Benchmarks)'
RECURSIVE SearchWithTrack(_, _)
SearchWithTrack(url, j) ==
    IF j + 3 > Len(url) THEN 0
    ELSE IF /\ url[j] = "/hash/" /\ IsHex32(url[j + 1]) /\ url[j + 2] = "-Abstract"
            /\ url[j + 3] \in Tracks
    THEN j
    ELSE SearchWithTrack(url, j + 1)

\* r'/hash/([a-f0-9]{32})-Abstract'
RECURSIVE SearchNoTrack(_, _)
SearchNoTrack(url, j) ==
    IF j + 2 > Len(url) THEN 0
    ELSE IF url[j] = "/hash/" /\ IsHex32(url[j + 1]) /\ url[j + 2] = "-Abstract"
    THEN j
    ELSE SearchNoTrack(url, j + 1)

\* Variant of ExtractHash: the first pattern alone.
ExtractHash_NoFallback(url) ==
    LET m == SearchWithTrack(url, 1)
    IN  IF m > 0 THEN <<url[m + 1], TrackName(url[m + 3])>> ELSE <<NULL, NULL>>

\* _extract_hash_from_proceedings_url: <<hash, track>>, <<NULL, NULL>> if no match.
ExtractHash(url) ==
    LET m == SearchWithTrack(url, 1)
        n == SearchNoTrack(url, 1)
    IN  IF m > 0 THEN <<url[m + 1], TrackName(url[m + 3])>>
        ELSE IF n > 0 THEN <<url[n + 1], "Conference">>
        ELSE <<NULL, NULL>>

\* ----------------------------------------------------- the index's entries
ForumId(k) == <<"f1", "f2", "f3", "f4">>[k]
DoiHref(k) == <<RESOLVER, UpperOf[k]>>
GoodUrl(k) == <<"/hash/", HexHashes[k], "-Abstract", "-Conference">>
BadUrl == <<"/paper/">>

\* The dictionary _parse_dblp_html builds for entry k (no enrichment keys).
Entries(k) ==
    [title : {EmptyStr, "Short", "A longer title"},
     doi : {<<>>, DoiHref(k)},
     openreview_id : {NULL, ForumId(k)},
     neurips_proceedings_url : {<<>>, GoodUrl(k), BadUrl},
     abstract : {ABSENT},
     citation_count : {ABSENT},
     abstract_source : {ABSENT},
     source_id : {ABSENT}]

Listings(n) == {s \in [1..n -> UNION {Entries(k) : k \in 1..n}] :
                   \A k \in 1..n : s[k] \in Entries(k)}

\* ------------------------------------------------------------ responses
\* What a request to a source comes back with.
\*   hit      200, a record with the content asked for
\*   partial  200, a record without an abstract
\*   empty    200, no record in the result list
\*   notfound HTTP 404
\*   httperr  any other HTTP error status
\*   timeout  a time-out or a network error
\*   malformed 200 with a body that is not JSON
Resp == {"hit", "partial", "empty", "notfound", "httperr", "timeout", "malformed"}
Unreachable == {"httperr", "timeout"}
NoRecord == {"notfound", "empty"}

NullResult == [abstract |-> NULL, citation_count |-> NULL, source_id |-> NULL]
Result(a, c, s) == [abstract |-> a, citation_count |-> c, source_id |-> s]

\* --------------------------------------------------------- source clients
\* Every client returns [res |-> the tuple handed to the orchestrator,
\* requested |-> whether an HTTP request was issued].
Answer(res, requested) == [res |-> res, requested |-> requested]

OPENALEX_ID == "W"
S2_PAPER_ID == "S2"
ProceedingsPage(h) == CHOOSE u \in {"u1", "u2", "u3", "u4"} :
                         \E k \in 1..4 : HexHashes[k] = h /\ u = <<"u1", "u2", "u3", "u4">>[k]

\* search_openreview_by_title: the forum id found (found is notes[0]'s id), or NULL.
search_openreview_by_title(title, v, found, resp) ==
    IF ~OPENREVIEW_SEARCH_ENABLED \/ ~Truthy(title) \/ v \notin OPENREVIEW_VENUES
    THEN Answer(NULL, FALSE)
    ELSE IF resp = "hit" THEN Answer(found, TRUE)
    ELSE Answer(NULL, TRUE)

fetch_abstract_openreview(forum_id, resp) ==
    IF ~Truthy(forum_id) THEN Answer(NullResult, FALSE)
    ELSE CASE resp = "hit" -> Answer(Result(TEXT, NULL, forum_id), TRUE)
           [] resp \in {"partial", "empty"} -> Answer(Result(NULL, NULL, forum_id), TRUE)
           [] OTHER -> Answer(NullResult, TRUE)

\* Variant of the single DOI lookup: a 404 is read like a record without
\* content (data.get defaults).
fetch_abstract_semantic_scholar_404AsEmpty(doi, resp) ==
    IF ~TruthySeq(doi) THEN Answer(NullResult, FALSE)
    ELSE CASE resp = "hit" -> Answer(Result(TEXT, CITES, S2_PAPER_ID), TRUE)
           [] resp = "partial" -> Answer(Result(NULL, CITES, S2_PAPER_ID), TRUE)
           [] resp \in {"empty", "notfound"} -> Answer(Result(NULL, "0", NULL), TRUE)
           [] OTHER -> Answer(NullResult, TRUE)

fetch_abstract_semantic_scholar(doi, resp) ==
    IF ~TruthySeq(doi) THEN Answer(NullResult, FALSE)
    ELSE CASE resp = "hit" -> Answer(Result(TEXT, CITES, S2_PAPER_ID), TRUE)
           [] resp = "partial" -> Answer(Result(NULL, CITES, S2_PAPER_ID), TRUE)
           [] resp = "empty" -> Answer(Result(NULL, "0", NULL), TRUE)
           [] OTHER -> Answer(NullResult, TRUE)

fetch_abstract_openalex_by_title(title, resp) ==
    IF ~Truthy(title) \/ StrLen(title) < MIN_TITLE_LEN THEN Answer(NullResult, FALSE)
    ELSE CASE resp = "hit" -> Answer(Result(TEXT, CITES, OPENALEX_ID), TRUE)
           [] resp = "partial" -> Answer(Result(NULL, CITES, OPENALEX_ID), TRUE)
           [] OTHER -> Answer(NullResult, TRUE)

fetch_neurips_proceedings_abstract(paper_hash, resp) ==
    IF ~Truthy(paper_hash) THEN Answer(NullResult, FALSE)
    ELSE IF resp = "hit" THEN Answer(Result(TEXT, NULL, ProceedingsPage(paper_hash)), TRUE)
    ELSE Answer(NullResult, TRUE)

\* ------------------------------------------------------------------ state
VARIABLES
    venue,        \* conf_config['dblp_venue'] of the conference main works on
    corpus,       \* what the bibliographic index lists for the conference
    ckpt,         \* the checkpoint file <conference>_papers.json
    papers,       \* the in-memory collection (the list main passes around)
    pc,           \* where the running main stands
    ws,           \* the current tier's working list (indices into papers)
    i,            \* 1-based position of the next paper of ws
    fetched,      \* the tier's success counter (abstracts_fetched, found_count)
    oa,           \* the locals of fetch_abstracts_openalex
    run,          \* number of the current execution of main
    mode,         \* "normal" or "refetch" (--refetch-abstracts) of the current run
    calls,        \* history: per paper, the tiers whose client was invoked for it in this run
    succ,         \* history: per paper, the tiers whose client returned an abstract in this run
    reqSeq,       \* history: the tiers of the HTTP requests of this run, in order
    lastCall,     \* the latest direct invocation of a source client and what it handed back
    enrichStart,  \* history: the collection as enrich_papers_with_abstracts received it
    memo,         \* resumption scenario: the answer each source has given for each key
    phase,        \* resumption scenario: which of its executions of main is running
    outcome,      \* resumption scenario: the collection the resumed execution ended with
    probe,        \* a function or a rate limiter exercised on its own: arguments and result
    failed,       \* history: the latest request of the running tier ended in an exception
    log           \* history: the tiers that wrote to the progress log in this run

vars == <<venue, corpus, ckpt, papers, pc, ws, i, fetched, oa, run, mode,
          calls, succ, reqSeq, lastCall, enrichStart, memo, phase, outcome, probe,
          failed, log>>
\* The variables of the resumption scenario and of the functions exercised on
\* their own; main's steps leave them alone.
scenario == <<memo, phase, outcome, probe>>

Tiers == 0..5
\* The abstract_source tag each tier writes.
SourceName(t) ==
    CASE t = 1 -> "openreview"
      [] t = 2 -> "openalex"
      [] t = 3 -> "openalex_title"
      [] t = 4 -> "semantic_scholar"
      [] t = 5 -> "neurips_proceedings"

\* ------------------------------------------------------------------ JSON
\* json.dump / json.load of one paper dictionary. A JSON object has the keys
\* the dictionary has; None is written as the literal null, a string as the
\* string between quotes. (doi and neurips_proceedings_url are strings the
\* model keeps as sequences of pieces; the empty sequence is the string ''.)
Fields == {"title", "doi", "openreview_id", "neurips_proceedings_url",
           "abstract", "citation_count", "abstract_source", "source_id"}
SeqFields == {"doi", "neurips_proceedings_url"}
JSON_NULL == <<"null">>
QUOTE == "\""

JsonDumpValue(f, v) ==
    IF f \in SeqFields
    THEN (IF v = NoneSeq THEN JSON_NULL ELSE <<QUOTE>> \o v \o <<QUOTE>>)
    ELSE (IF v = NULL THEN JSON_NULL ELSE <<QUOTE, v, QUOTE>>)

JsonLoadValue(f, j) ==
    IF f \in SeqFields
    THEN (IF j = JSON_NULL THEN NoneSeq ELSE SubSeq(j, 2, Len(j) - 1))
    ELSE (IF j = JSON_NULL THEN NULL ELSE j[2])

\* Does dictionary p have key f.
HasField(p, f) == IF f \in SeqFields THEN p[f] # AbsentSeq ELSE p[f] # ABSENT

\* Variant of JsonDump: keys whose value is None are left out of the object.
JsonDump_SkipNull(p) ==
    [f \in {g \in Fields : HasField(p, g) /\ (g \in SeqFields \/ p[g] # NULL)} |->
        JsonDumpValue(f, p[f])]

JsonDump(p) ==
    [f \in {g \in Fields : HasField(p, g)} |-> JsonDumpValue(f, p[f])]

\* The dictionary json.load builds from the object; a key the object lacks
\* is a key the dictionary lacks.
JsonLoad(obj) ==
    [f \in Fields |->
        IF f \in DOMAIN obj THEN JsonLoadValue(f, obj[f])
        ELSE IF f \in SeqFields THEN AbsentSeq ELSE ABSENT]

\* Variant of FileOf: the document lacks the citation counts.
FileOf_NoCitations(ps) ==
    [exists |-> TRUE, complete |-> TRUE, total_papers |-> Len(ps),
     papers |-> [k \in DOMAIN ps |-> JsonDump([ps[k] EXCEPT !.citation_count = NULL])]]

\* The JSON document save_papers writes: metadata.total_papers and the papers
\* list; utils.save_json opens the file with mode 'w'.
FileOf(ps) ==
    [exists |-> TRUE, complete |-> TRUE, total_papers |-> Len(ps),
     papers |-> [k \in DOMAIN ps |-> JsonDump(ps[k])]]
NoCheckpoint == [exists |-> FALSE, complete |-> FALSE, total_papers |-> 0, papers |-> <<>>]

\* What is on disk when the process ends inside utils.save_json: open(..., 'w')
\* has emptied the file and json.dump has written the document up to some
\* point, here into or past the n-th paper and short of the closing brackets.
Torn(file, n) == [file EXCEPT !.complete = FALSE, !.papers = SubSeq(@, 1, n)]

EmptyDict == [d \in {} |-> NullResult]
NoOa == [dois |-> <<>>, abstracts |-> EmptyDict, batch_num |-> 0]
\* A direct invocation of a client: its arguments (key), what the source did
\* (resp) and what the client handed back: a tuple (res), a forum id (id) or
\* a dictionary keyed by DOI (dict).
\* later is what the source does for the requests after the first, attempts
\* the number of HTTP requests of the invocation, raised whether an exception
\* left the client.
NoCall == [client |-> "none", key |-> <<>>, requested |-> FALSE, resp |-> "none",
           res |-> NullResult, id |-> NULL, dict |-> EmptyDict,
           later |-> "none", attempts |-> 0, raised |-> FALSE]

Range(s) == {s[k] : k \in DOMAIN s}

\* Variants of the working-set filters, each without its test of the abstract.
NeedsId_NoAbstractTest(p) == p.openreview_id \in {NULL, ABSENT, EmptyStr}
InOpenReview_NoAbstractTest(p) == p.openreview_id \notin {NULL, ABSENT, EmptyStr}
InTitleSearch_AnyTitle(p) == p.title \notin {NULL, ABSENT, EmptyStr}
InSemanticScholar_AnyDoi(p) == p.doi # <<>>

\* ------------------------------------------------------------ working sets
\* [p for p in papers if not p.get('openreview_id') and not p.get('abstract')]
NeedsId(p) == ~Truthy(p.openreview_id) /\ ~Truthy(p.abstract)
\* [p for p in papers if p.get('openreview_id') and not p.get('abstract')]
InOpenReview(p) == Truthy(p.openreview_id) /\ ~Truthy(p.abstract)
\* [p for p in papers if p.get('doi') and not p.get('abstract')]
InOpenAlex(p) == TruthySeq(p.doi) /\ ~Truthy(p.abstract)
\* [p for p in papers if p['abstract'] is None and p.get('title')]
InTitleSearch(p) == p.abstract = NULL /\ Truthy(p.title)
\* [p for p in papers if p['abstract'] is None and p.get('doi')]
InSemanticScholar(p) == p.abstract = NULL /\ TruthySeq(p.doi)
\* [p for p in papers if p['abstract'] is None and p.get('neurips_proceedings_url')]
InProceedings(p) == p.abstract = NULL /\ TruthySeq(p.neurips_proceedings_url)

\* Variant of TierApplies: only the id search tests the venue.
TierApplies_AnyVenueForProceedings(t, v) == t = 0 => v \in OPENREVIEW_VENUES

\* Does tier t run at all for venue v (the two venue tests of the orchestrator).
TierApplies(t, v) ==
    CASE t = 0 -> v \in OPENREVIEW_VENUES
      [] t = 5 -> v = "neurips"
      [] OTHER -> TRUE

\* The filter of tier t's list comprehension.
Keeps(t, p) ==
    CASE t = 0 -> NeedsId(p)
      [] t = 1 -> InOpenReview(p)
      [] t = 2 -> InOpenAlex(p)
      [] t = 3 -> InTitleSearch(p)
      [] t = 4 -> InSemanticScholar(p)
      [] t = 5 -> InProceedings(p)

\* The indices of ps that tier t's filter keeps, in list order.
RECURSIVE SelectFrom(_, _, _)
SelectFrom(ps, t, k) ==
    IF k > Len(ps) THEN <<>>
    ELSE (IF Keeps(t, ps[k]) THEN <<k>> ELSE <<>>) \o SelectFrom(ps, t, k + 1)

\* Variant of WorkingSet: the abstracts are read from the collection as the
\* run received it.
AsReceived(ps) ==
    [k \in DOMAIN ps |->
        [ps[k] EXCEPT !.abstract = IF enrichStart[k].abstract \in {NULL, ABSENT}
                                   THEN NULL ELSE @]]
WorkingSet_Stale(t, ps) == SelectFrom(AsReceived(ps), t, 1)

WorkingSet(t, ps) == SelectFrom(ps, t, 1)

\* Variant of NextTier: the proceedings tier runs before the single lookup.
NextTier_Swapped(t) ==
    CASE t = 3 -> 5
      [] t = 5 -> 4
      [] t = 4 -> 6
      [] OTHER -> t + 1

\* The pc at which tier t begins, and the tier that follows t.
TierPc(t) == <<"t0", "t1", "t2", "t3", "t4", "t5", "stats">>[t + 1]
NextTier(t) == t + 1

\* Variant of Merge: the four assignments without the test of the abstract.
Merge_Unguarded(p, res, t) ==
    [p EXCEPT !.abstract = res.abstract,
              !.citation_count = res.citation_count,
              !.abstract_source = SourceName(t),
              !.source_id = res.source_id]

\* ------------------------------------------------------------------ merge
\* if abstract: paper['abstract'] = abstract; ... (the four assignments)
Merge(p, res, t) ==
    IF Truthy(res.abstract)
    THEN [p EXCEPT !.abstract = res.abstract,
                   !.citation_count = res.citation_count,
                   !.abstract_source = SourceName(t),
                   !.source_id = res.source_id]
    ELSE p

\* The "progress logging and incremental saves" block that ends every
\* iteration of a per-paper tier: does it call save_papers.
PeriodicSaveWith(n, logInterval, saveInterval) ==
    /\ logInterval > 0
    /\ n > 0
    /\ n % logInterval = 0
    /\ ENABLE_INCREMENTAL_SAVES
    /\ n % saveInterval = 0

PeriodicSave(n) ==
    PeriodicSaveWith(n, ABSTRACT_PROGRESS_LOG_INTERVAL, INCREMENTAL_SAVE_INTERVAL)

\* for paper in papers: if 'abstract' not in paper: paper['abstract'] = None ...
InitFields(p) ==
    [p EXCEPT !.abstract = IF @ = ABSENT THEN NULL ELSE @,
              !.citation_count = IF @ = ABSENT THEN NULL ELSE @,
              !.abstract_source = IF @ = ABSENT THEN NULL ELSE @,
              !.source_id = IF @ = ABSENT THEN NULL ELSE @]

\* utils.validate_papers: is_valid (every paper of the model has a year).
ValidatePapers(ps) ==
    LET valid == Cardinality({k \in DOMAIN ps : Truthy(ps[k].title)})
    IN  /\ Len(ps) > 0
        /\ valid > 0
        /\ ~(valid * 10 < Len(ps) * 9)

\* ------------------------------------------------------------------- Init
NoHistory == [k \in 1..MaxPapers |-> {}]
NoMemo == [t \in Tiers |-> [k \in 1..MaxPapers |-> "unset"]]
NoProbe == [fn |-> "none"]

Init ==
    /\ venue \in Venues
    /\ corpus \in UNION {Listings(n) : n \in 0..MaxPapers}
    /\ ckpt = NoCheckpoint
    /\ papers = <<>>
    /\ pc = "main"
    /\ ws = <<>>
    /\ i = 0
    /\ fetched = 0
    /\ oa = NoOa
    /\ run = 1
    /\ mode = "none"
    /\ calls = NoHistory
    /\ succ = NoHistory
    /\ reqSeq = <<>>
    /\ lastCall = NoCall
    /\ enrichStart = <<>>
    /\ memo = NoMemo
    /\ phase = "single"
    /\ outcome = <<>>
    /\ probe = NoProbe
    /\ failed = FALSE
    /\ log = {}

\* ------------------------------------------------------------------- main
\* main without --refetch-abstracts, up to the call of
\* enrich_papers_with_abstracts: fetch_all_years (a failed page request
\* contributes no papers), validate_papers, the save after the DBLP phase.
MainNormal(resp) ==
    /\ pc = "main"
    /\ UNCHANGED <<failed, log>>
    /\ LET listed == IF resp = "hit" THEN corpus ELSE <<>>
       IN  /\ papers' = listed
           /\ IF ValidatePapers(listed)
              THEN /\ pc' = "enrich"
                   /\ ckpt' = IF ENABLE_INCREMENTAL_SAVES THEN FileOf(listed) ELSE ckpt
              ELSE /\ pc' = "exit"
                   /\ ckpt' = ckpt
    /\ mode' = "normal"
    /\ UNCHANGED <<venue, corpus, ws, i, fetched, oa, run, calls, succ, reqSeq,
                   lastCall, enrichStart>>

\* load_papers: the papers list of the checkpoint file.
load_papers == [k \in DOMAIN ckpt.papers |-> JsonLoad(ckpt.papers[k])]

\* main with --refetch-abstracts, up to the call of
\* enrich_papers_with_abstracts: load_papers (sys.exit(1) without a file,
\* json.load raises on a document that is not complete) and the "current
\* state" report, which divides by len(papers).
MainRefetch ==
    /\ pc = "main"
    /\ UNCHANGED <<failed, log>>
    /\ mode' = "refetch"
    /\ IF ~ckpt.exists
       THEN /\ pc' = "exit"
            /\ papers' = papers
       ELSE IF ~ckpt.complete
       THEN /\ pc' = "raised"
            /\ papers' = papers
       ELSE /\ papers' = load_papers
            /\ pc' = IF Len(load_papers) = 0 THEN "raised" ELSE "enrich"
    /\ UNCHANGED <<venue, corpus, ckpt, ws, i, fetched, oa, run, calls, succ,
                   reqSeq, lastCall, enrichStart>>

\* enrich_papers_with_abstracts, lines 750-770: the enrichment keys are
\* initialised where missing; recovery mode only logs.
EnrichInit ==
    /\ pc = "enrich"
    /\ UNCHANGED <<failed, log>>
    /\ papers' = [k \in DOMAIN papers |-> InitFields(papers[k])]
    /\ enrichStart' = papers
    /\ pc' = TierPc(0)
    /\ UNCHANGED <<venue, corpus, ckpt, ws, i, fetched, oa, run, mode, calls,
                   succ, reqSeq, lastCall>>

\* ------------------------------------------------------------------ tiers
\* The head of a per-paper tier: the working list is computed from the
\* collection as it is now; an empty list (or a venue the tier is not for)
\* passes on to the next tier.
BeginTier(t, looppc) ==
    /\ pc = TierPc(t)
    /\ failed' = FALSE
    /\ IF TierApplies(t, venue) /\ WorkingSet(t, papers) # <<>>
       THEN /\ ws' = WorkingSet(t, papers)
            /\ i' = 1
            /\ fetched' = 0
            /\ pc' = looppc
            /\ log' = log \cup {t}    \* _save_progress_log("Starting ...")
       ELSE /\ pc' = TierPc(NextTier(t))
            /\ UNCHANGED <<ws, i, fetched, log>>
    /\ UNCHANGED <<venue, corpus, ckpt, papers, oa, run, mode, calls, succ,
                   reqSeq, lastCall, enrichStart>>

\* Variant of Advance: a paper whose request brought no abstract is tried
\* again.
Advance_RetryOnMiss(t, k, a, n, gotAbstract) ==
    /\ calls' = [calls EXCEPT ![k] = @ \cup {t}]
    /\ succ' = IF gotAbstract THEN [succ EXCEPT ![k] = @ \cup {t}] ELSE succ
    /\ reqSeq' = IF a.requested THEN Append(reqSeq, t) ELSE reqSeq
    /\ IF a.requested /\ ~gotAbstract /\ t # 0
       THEN /\ pc' = pc
            /\ i' = i
            /\ ws' = ws
            /\ fetched' = n
       ELSE IF i = Len(ws)
       THEN /\ pc' = TierPc(NextTier(t))
            /\ i' = 0
            /\ ws' = <<>>
            /\ fetched' = 0
       ELSE /\ pc' = pc
            /\ i' = i + 1
            /\ ws' = ws
            /\ fetched' = n

\* Variant of Advance: an iteration that brought no abstract ends the tier's
\* loop.
Advance_StopOnMiss(t, k, a, n, gotAbstract) ==
    /\ calls' = [calls EXCEPT ![k] = @ \cup {t}]
    /\ succ' = IF gotAbstract THEN [succ EXCEPT ![k] = @ \cup {t}] ELSE succ
    /\ reqSeq' = IF a.requested THEN Append(reqSeq, t) ELSE reqSeq
    /\ IF i = Len(ws) \/ (t # 0 /\ ~gotAbstract)
       THEN /\ pc' = TierPc(NextTier(t))
            /\ i' = 0
            /\ ws' = <<>>
            /\ fetched' = 0
       ELSE /\ pc' = pc
            /\ i' = i + 1
            /\ ws' = ws
            /\ fetched' = n

\* The bookkeeping shared by the per-paper iterations of tier t for paper k
\* with client answer a and success counter n: histories, the loop, and the
\* end of the tier (the counter is a local that is dead after the loop).
Advance(t, k, a, n, gotAbstract) ==
    /\ calls' = [calls EXCEPT ![k] = @ \cup {t}]
    /\ succ' = IF gotAbstract THEN [succ EXCEPT ![k] = @ \cup {t}] ELSE succ
    /\ reqSeq' = IF a.requested THEN Append(reqSeq, t) ELSE reqSeq
    /\ IF i = Len(ws)
       THEN /\ pc' = TierPc(NextTier(t))
            /\ i' = 0
            /\ ws' = <<>>
            /\ fetched' = 0
       ELSE /\ pc' = pc
            /\ i' = i + 1
            /\ ws' = ws
            /\ fetched' = n

\* Did the request of a client's invocation, answered by resp, end in one of
\* the client's except clauses.
Failed(a, resp) == a.requested /\ resp \notin {"hit", "partial", "empty"}

\* Tier 0, one iteration: search the review platform for a missing forum id.
Tier0Begin == BeginTier(0, "t0loop")

\* found is the id of the first note the search would return.
Tier0Search(resp, found) ==
    /\ pc = "t0loop"
    /\ UNCHANGED log
    /\ failed' = Failed(search_openreview_by_title(papers[ws[i]].title, venue,
                                                   found, resp), resp)
    /\ LET k == ws[i]
           a == search_openreview_by_title(papers[k].title, venue, found, resp)
       IN  /\ papers' = IF Truthy(a.res)
                        THEN [papers EXCEPT ![k].openreview_id = a.res]
                        ELSE papers
           /\ Advance(0, k, a, IF Truthy(a.res) THEN fetched + 1 ELSE fetched, FALSE)
    /\ UNCHANGED <<venue, corpus, ckpt, oa, run, mode, lastCall, enrichStart>>

Tier0Step(resp) == Tier0Search(resp, ForumId(ws[i]))

\* One iteration of a per-paper abstract tier t for paper k, whose client
\* answered a: merge, count, periodic save.
PaperStep(t, k, a) ==
    LET merged == [papers EXCEPT ![k] = Merge(papers[k], a.res, t)]
        n == IF Truthy(a.res.abstract) THEN fetched + 1 ELSE fetched
    IN  /\ papers' = merged
        /\ ckpt' = IF PeriodicSave(n) THEN FileOf(merged) ELSE ckpt
        /\ Advance(t, k, a, n, Truthy(a.res.abstract))

\* Tier 1: review-platform fetch by forum id.
Tier1Begin == BeginTier(1, "t1loop")

Tier1Step(resp) ==
    /\ pc = "t1loop"
    /\ PaperStep(1, ws[i], fetch_abstract_openreview(papers[ws[i]].openreview_id, resp))
    /\ UNCHANGED log
    /\ failed' = Failed(fetch_abstract_openreview(papers[ws[i]].openreview_id, resp), resp)
    /\ UNCHANGED <<venue, corpus, oa, run, mode, lastCall, enrichStart>>

\* Tier 2: batch fetch by DOI.
\* dois of fetch_abstracts_openalex: the non-empty normalised DOIs, in order.
RECURSIVE BatchDois(_, _)
BatchDois(ps, idx) ==
    IF idx = <<>> THEN <<>>
    ELSE LET d == NormalizeDoi(ps[Head(idx)].doi)
         IN  (IF TruthySeq(d) THEN <<d>> ELSE <<>>) \o BatchDois(ps, Tail(idx))

\* total_batches = (len(dois) + batch_size - 1) // batch_size
TotalBatchesOf(dois, batch_size) == (Len(dois) + batch_size - 1) \div batch_size

TotalBatches(dois) == TotalBatchesOf(dois, OPENALEX_BATCH_SIZE)

Min(a, b) == IF a < b THEN a ELSE b

\* Variant of BatchOfSize: end_idx = start_idx + batch_size - 1.
BatchOfSize_ShortEnd(dois, b, batch_size) ==
    SubSeq(dois, b * batch_size + 1, Min(b * batch_size + batch_size - 1, Len(dois)))

\* batch_dois = dois[start_idx:end_idx] of batch number b (0-based).
BatchOfSize(dois, b, batch_size) ==
    SubSeq(dois, b * batch_size + 1, Min(b * batch_size + batch_size, Len(dois)))

BatchOf(dois, b) == BatchOfSize(dois, b, OPENALEX_BATCH_SIZE)

DictPut(f, key, val) ==
    [d \in (DOMAIN f) \cup {key} |-> IF d = key THEN val ELSE f[d]]

\* "Process results": one dictionary entry per work of the response; works[j]
\* tells whether the source has the j-th DOI of the batch with an abstract
\* ("hit"), without one ("partial") or not at all ("empty").
RECURSIVE ProcessResults(_, _, _, _)
ProcessResults(abstracts, batch, works, j) ==
    IF j > Len(batch) THEN abstracts
    ELSE LET key == WorkDoi(<<RESOLVER>> \o batch[j])
             next == CASE works[j] = "hit" ->
                            DictPut(abstracts, key, Result(TEXT, CITES, OPENALEX_ID))
                       [] works[j] = "partial" ->
                            DictPut(abstracts, key, Result(NULL, CITES, OPENALEX_ID))
                       [] OTHER -> abstracts
         IN  ProcessResults(next, batch, works, j + 1)

\* The orchestrator's head of tier 2 and the head of fetch_abstracts_openalex.
Tier2Begin ==
    /\ pc = TierPc(2)
    /\ failed' = FALSE
    /\ LET doi_papers == WorkingSet(2, papers)
           dois == BatchDois(papers, doi_papers)
       IN  IF doi_papers = <<>>
           THEN /\ pc' = TierPc(NextTier(2))
                /\ UNCHANGED <<ws, oa, calls, log>>
           ELSE /\ ws' = doi_papers
                /\ log' = log \cup {2}    \* _save_progress_log("Starting ...")
                /\ oa' = [dois |-> dois, abstracts |-> EmptyDict, batch_num |-> 0]
                /\ calls' = [k \in DOMAIN calls |->
                               IF k \in Range(doi_papers) THEN calls[k] \cup {2}
                               ELSE calls[k]]
                /\ pc' = IF dois = <<>> THEN "t2merge" ELSE "t2batch"
    /\ UNCHANGED <<venue, corpus, ckpt, papers, i, fetched, run, mode, succ,
                   reqSeq, lastCall, enrichStart>>

\* One batch request of fetch_abstracts_openalex; any failure of the request
\* is logged and the batch is passed over.
Tier2Batch(resp, works) ==
    /\ pc = "t2batch"
    /\ LET batch == BatchOf(oa.dois, oa.batch_num)
           got == IF resp \in {"hit", "partial", "empty"}
                  THEN ProcessResults(oa.abstracts, batch, works, 1)
                  ELSE oa.abstracts
       IN  /\ works \in [1..Len(batch) -> {"hit", "partial", "empty"}]
           /\ oa' = [oa EXCEPT !.abstracts = got, !.batch_num = @ + 1]
           /\ pc' = IF oa.batch_num + 1 = TotalBatches(oa.dois) THEN "t2merge" ELSE pc
    /\ reqSeq' = Append(reqSeq, 2)
    /\ UNCHANGED log
    /\ failed' = (resp \notin {"hit", "partial", "empty"})
    /\ UNCHANGED <<venue, corpus, ckpt, papers, ws, i, fetched, run, mode, calls,
                   succ, lastCall, enrichStart>>

\* "Add abstracts from OpenAlex to papers": the merge loop over doi_papers.
\* (An iteration reads and writes the one paper it is for, so the loop is
\* the same assignment made for every paper of idx.)
MergeBatch(ps, idx, abstracts) ==
    [k \in DOMAIN ps |->
        IF k \in Range(idx) /\ NormalizeDoi(ps[k].doi) \in DOMAIN abstracts
        THEN Merge(ps[k], abstracts[NormalizeDoi(ps[k].doi)], 2)
        ELSE ps[k]]

\* The papers of idx whose DOI the dictionary has with an abstract.
BatchAdded(ps, idx, abstracts) ==
    {k \in Range(idx) : /\ NormalizeDoi(ps[k].doi) \in DOMAIN abstracts
                        /\ Truthy(abstracts[NormalizeDoi(ps[k].doi)].abstract)}

\* The orchestrator's tail of tier 2: merge, and one save if anything was added.
Tier2Merge ==
    /\ pc = "t2merge"
    /\ UNCHANGED <<failed, log>>
    /\ LET merged == MergeBatch(papers, ws, oa.abstracts)
           added == BatchAdded(papers, ws, oa.abstracts)
       IN  /\ papers' = merged
           /\ succ' = [k \in DOMAIN succ |->
                          IF k \in added THEN succ[k] \cup {2} ELSE succ[k]]
           /\ ckpt' = IF ENABLE_INCREMENTAL_SAVES /\ Cardinality(added) > 0
                      THEN FileOf(merged) ELSE ckpt
    /\ pc' = TierPc(NextTier(2))
    /\ ws' = <<>>
    /\ oa' = NoOa
    /\ UNCHANGED <<venue, corpus, i, fetched, run, mode, calls, reqSeq, lastCall,
                   enrichStart>>

\* Tier 3: title search.
Tier3Begin == BeginTier(3, "t3loop")

Tier3Step(resp) ==
    /\ pc = "t3loop"
    /\ PaperStep(3, ws[i], fetch_abstract_openalex_by_title(papers[ws[i]].title, resp))
    /\ UNCHANGED log
    /\ failed' = Failed(fetch_abstract_openalex_by_title(papers[ws[i]].title, resp), resp)
    /\ UNCHANGED <<venue, corpus, oa, run, mode, lastCall, enrichStart>>

\* Tier 4: single lookup by DOI.
Tier4Begin == BeginTier(4, "t4loop")

Tier4Step(resp) ==
    /\ pc = "t4loop"
    /\ PaperStep(4, ws[i],
                 fetch_abstract_semantic_scholar(SemanticScholarDoi(papers[ws[i]].doi), resp))
    /\ UNCHANGED log
    /\ failed' = Failed(fetch_abstract_semantic_scholar(
                            SemanticScholarDoi(papers[ws[i]].doi), resp), resp)
    /\ UNCHANGED <<venue, corpus, oa, run, mode, lastCall, enrichStart>>

\* Tier 5: proceedings site, by the hash of the captured URL.
Tier5Begin == BeginTier(5, "t5loop")

Tier5Step(resp) ==
    /\ pc = "t5loop"
    /\ LET k == ws[i]
           ht == ExtractHash(papers[k].neurips_proceedings_url)
       IN  IF Truthy(ht[1]) /\ Truthy(ht[2])
           THEN /\ PaperStep(5, k, fetch_neurips_proceedings_abstract(ht[1], resp))
                /\ UNCHANGED log
                /\ failed' = Failed(fetch_neurips_proceedings_abstract(ht[1], resp), resp)
           ELSE \* failed_count += 1: no client is called
                /\ UNCHANGED log
                /\ failed' = FALSE
                /\ papers' = papers
                /\ ckpt' = IF PeriodicSave(fetched) THEN FileOf(papers) ELSE ckpt
                /\ UNCHANGED <<calls, succ, reqSeq>>
                /\ IF i = Len(ws)
                   THEN pc' = TierPc(NextTier(5)) /\ i' = 0 /\ ws' = <<>> /\ fetched' = 0
                   ELSE pc' = pc /\ i' = i + 1 /\ ws' = ws /\ fetched' = fetched
    /\ UNCHANGED <<venue, corpus, oa, run, mode, lastCall, enrichStart>>

\* The counts of "Calculate final statistics".
CountSource(ps, name) == Cardinality({k \in DOMAIN ps : ps[k].abstract_source = name})
final_statistics(ps) ==
    LET with == Cardinality({k \in DOMAIN ps : Truthy(ps[k].abstract)})
    IN  [total_papers |-> Len(ps),
         papers_with_abstracts |-> with,
         papers_without_abstracts |-> Len(ps) - with,
         openreview_count |-> CountSource(ps, "openreview"),
         openalex_count |-> CountSource(ps, "openalex"),
         openalex_title_count |-> CountSource(ps, "openalex_title"),
         semantic_scholar_count |-> CountSource(ps, "semantic_scholar"),
         neurips_proceedings_count |-> CountSource(ps, "neurips_proceedings")]

\* "Calculate final statistics": the percentages divide by len(papers).
FinalStats ==
    /\ pc = "stats"
    /\ UNCHANGED <<failed, log>>
    /\ pc' = IF Len(papers) = 0 THEN "raised" ELSE "finalsave"
    /\ UNCHANGED <<venue, corpus, ckpt, papers, ws, i, fetched, oa, run, mode,
                   calls, succ, reqSeq, lastCall, enrichStart>>

\* main after enrich_papers_with_abstracts returned: the final save.
MainFinalSave ==
    /\ pc = "finalsave"
    /\ UNCHANGED <<failed, log>>
    /\ ckpt' = FileOf(papers)
    /\ pc' = "done"
    /\ UNCHANGED <<venue, corpus, papers, ws, i, fetched, oa, run, mode, calls,
                   succ, reqSeq, lastCall, enrichStart>>

Ended == pc \in {"done", "exit", "raised"}

\* The process has ended and main is started again for the same conference.
NewRun ==
    /\ Ended
    /\ failed' = FALSE
    /\ log' = {}
    /\ run < MaxRuns
    /\ run' = run + 1
    /\ pc' = "main"
    /\ mode' = "none"
    /\ papers' = <<>>
    /\ ws' = <<>>
    /\ i' = 0
    /\ fetched' = 0
    /\ oa' = NoOa
    /\ calls' = NoHistory
    /\ succ' = NoHistory
    /\ reqSeq' = <<>>
    /\ lastCall' = NoCall
    /\ enrichStart' = <<>>
    /\ UNCHANGED <<venue, corpus, ckpt>>

\* What the source may hold for the DOIs of one batch (a batch has 1 to
\* batch_size DOIs).
WorksOf(S) == UNION {[1..n -> S] : n \in 1..OPENALEX_BATCH_SIZE}

Next ==
    \/ (\E resp \in {"hit", "timeout"} : MainNormal(resp)) /\ UNCHANGED scenario
    \/ MainRefetch /\ UNCHANGED scenario
    \/ EnrichInit /\ UNCHANGED scenario
    \/ Tier0Begin /\ UNCHANGED scenario
    \/ (\E resp \in Resp : Tier0Step(resp)) /\ UNCHANGED scenario
    \/ Tier1Begin /\ UNCHANGED scenario
    \/ (\E resp \in Resp : Tier1Step(resp)) /\ UNCHANGED scenario
    \/ Tier2Begin /\ UNCHANGED scenario
    \/ (\E resp \in Resp : \E works \in WorksOf({"hit", "partial", "empty"}) :
          Tier2Batch(resp, works)) /\ UNCHANGED scenario
    \/ Tier2Merge /\ UNCHANGED scenario
    \/ Tier3Begin /\ UNCHANGED scenario
    \/ (\E resp \in Resp : Tier3Step(resp)) /\ UNCHANGED scenario
    \/ Tier4Begin /\ UNCHANGED scenario
    \/ (\E resp \in Resp : Tier4Step(resp)) /\ UNCHANGED scenario
    \/ Tier5Begin /\ UNCHANGED scenario
    \/ (\E resp \in Resp : Tier5Step(resp)) /\ UNCHANGED scenario
    \/ FinalStats /\ UNCHANGED scenario
    \/ MainFinalSave /\ UNCHANGED scenario
    \/ NewRun /\ UNCHANGED scenario

Spec == Init /\ [][Next]_vars

\* ------------------------------------------------- the clients on their own
\* fetch_abstracts_openalex as a whole: the batches one after the other; the
\* source does resps[n] for the n-th request it receives (the last element
\* for all further ones), the same for every DOI of the request.
RespAt(resps, n) == resps[IF n < Len(resps) THEN n ELSE Len(resps)]

RECURSIVE OpenAlexBatches(_, _, _, _)
OpenAlexBatches(dois, b, abstracts, resps) ==
    IF b >= TotalBatches(dois) THEN abstracts
    ELSE LET batch == BatchOf(dois, b)
             resp == RespAt(resps, b + 1)
             got == IF resp \in {"hit", "partial", "empty"}
                    THEN ProcessResults(abstracts, batch, [j \in 1..Len(batch) |-> resp], 1)
                    ELSE abstracts
         IN  OpenAlexBatches(dois, b + 1, got, resps)

fetch_abstracts_openalex(dois, resps) ==
    Answer(OpenAlexBatches(dois, 0, EmptyDict, resps), dois # <<>>)

\* The exceptions a request can end in, and the except clauses of the clients.
HTTPError == {"notfound", "httperr"}
OtherException == {"timeout", "malformed"}
\* "except requests.exceptions.HTTPError" and "except Exception" (the review
\* platform, single lookup and proceedings clients), "except Exception" alone
\* (the others).
Handled(c) ==
    IF c \in {"fetch_abstract_openreview", "fetch_abstract_semantic_scholar",
              "fetch_neurips_proceedings_abstract"}
    THEN HTTPError \cup OtherException
    ELSE {r \in Resp : r \in HTTPError \/ r \in OtherException}

\* The number of requests.get calls of one invocation: one per batch in the
\* batch client, one in every other client, none when the client returns
\* before its try block.
Requests(c, key, requested) ==
    IF ~requested THEN 0
    ELSE IF c = "fetch_abstracts_openalex"
    THEN TotalBatches([j \in 1..Len(key) |-> <<key[j]>>])
    ELSE 1

\* One invocation of client c with arguments key, the source doing resp for
\* the first request and later for the following ones.
Invoke2(c, key, resp, later) ==
    LET a == CASE c = "search_openreview_by_title" ->
                     search_openreview_by_title(key[1], key[2], "f1", resp)
               [] c = "fetch_abstract_openreview" ->
                     fetch_abstract_openreview(key[1], resp)
               [] c = "fetch_abstracts_openalex" ->
                     fetch_abstracts_openalex([j \in 1..Len(key) |-> <<key[j]>>],
                                              <<resp, later>>)
               [] c = "fetch_abstract_openalex_by_title" ->
                     fetch_abstract_openalex_by_title(key[1], resp)
               [] c = "fetch_abstract_semantic_scholar" ->
                     fetch_abstract_semantic_scholar(key, resp)
               [] c = "fetch_neurips_proceedings_abstract" ->
                     fetch_neurips_proceedings_abstract(key[1], resp)
    IN  [client |-> c, key |-> key, requested |-> a.requested, resp |-> resp,
         res |-> IF c \in {"search_openreview_by_title", "fetch_abstracts_openalex"}
                 THEN NullResult ELSE a.res,
         id |-> IF c = "search_openreview_by_title" THEN a.res ELSE NULL,
         dict |-> IF c = "fetch_abstracts_openalex" THEN a.res ELSE EmptyDict,
         later |-> later,
         attempts |-> Requests(c, key, a.requested),
         raised |-> a.requested /\ resp \in (HTTPError \cup OtherException) \ Handled(c)]

Invoke(c, key, resp) == Invoke2(c, key, resp, resp)

ClientKeys(c) ==
    CASE c = "search_openreview_by_title" ->
               {<<t, v>> : t \in {EmptyStr, "A longer title"}, v \in Venues}
      [] c = "fetch_abstract_openreview" -> {<<NULL>>, <<"f1">>, <<"f2">>}
      [] c = "fetch_abstracts_openalex" -> {<<>>, <<"a">>, <<"a", "b">>}
      [] c = "fetch_abstract_openalex_by_title" ->
               {<<EmptyStr>>, <<"Short">>, <<"A longer title">>}
      [] c = "fetch_abstract_semantic_scholar" -> {<<>>, <<"A">>, <<"B">>}
      [] c = "fetch_neurips_proceedings_abstract" -> {<<NULL>>, <<"h1">>, <<"h2">>}

Call(c) ==
    /\ phase = "clients"
    /\ UNCHANGED <<failed, log>>
    /\ \E key \in ClientKeys(c) : \E resp \in Resp :
          \E later \in (IF c = "fetch_abstracts_openalex" THEN Resp ELSE {resp}) :
             lastCall' = Invoke2(c, key, resp, later)
    /\ UNCHANGED <<venue, corpus, ckpt, papers, pc, ws, i, fetched, oa, run, mode,
                   calls, succ, reqSeq, enrichStart, memo, phase, outcome, probe>>

InitClients ==
    /\ venue = "iclr"
    /\ corpus = <<>>
    /\ ckpt = NoCheckpoint
    /\ papers = <<>>
    /\ pc = "client"
    /\ ws = <<>>
    /\ i = 0
    /\ fetched = 0
    /\ oa = NoOa
    /\ run = 1
    /\ mode = "none"
    /\ calls = NoHistory
    /\ succ = NoHistory
    /\ reqSeq = <<>>
    /\ lastCall = NoCall
    /\ enrichStart = <<>>
    /\ memo = NoMemo
    /\ phase = "clients"
    /\ outcome = <<>>
    /\ probe = NoProbe
    /\ failed = FALSE
    /\ log = {}

NextClients ==
    \/ Call("search_openreview_by_title")
    \/ Call("fetch_abstract_openreview")
    \/ Call("fetch_abstracts_openalex")
    \/ Call("fetch_abstract_openalex_by_title")
    \/ Call("fetch_abstract_semantic_scholar")
    \/ Call("fetch_neurips_proceedings_abstract")

SpecClients == InitClients /\ [][NextClients]_vars

\* ------------------------------------------------ functions on their own
\* The functions of the program that depend on their arguments alone are
\* applied to arguments drawn from bounded sets: Init draws the arguments
\* (probe.done = FALSE), one action per function applies it.
MaxCount == 6
MaxInterval == 3

\* One iteration of a per-paper tier under the configuration (log, save):
\* the success counter stands at n, the client returned an abstract or not.
SaveBlockInputs ==
    [fn : {"save_block"}, done : {FALSE}, n : 0..MaxCount, got : BOOLEAN,
     log : 0..MaxInterval, save : 1..MaxInterval, saved : {FALSE}]

\* if abstract: ... abstracts_fetched += 1, then the "progress logging and
\* incremental saves" block.
ApplySaveBlock ==
    /\ probe.fn = "save_block" /\ ~probe.done
    /\ LET n == IF probe.got THEN probe.n + 1 ELSE probe.n
       IN  probe' = [probe EXCEPT !.done = TRUE, !.n = n,
                                  !.saved = PeriodicSaveWith(n, probe.log, probe.save)]

\* A proceedings URL: up to MaxUrlLen pieces, among them pieces that are not
\* 32 lower-case hexadecimal digits ("0A1") and a suffix that is no track.
MaxUrlLen == 5
UrlPieces == {"http://", "/hash/", "h1", "0A1", "-Abstract", "-Conference",
              "-Datasets_and_Benchmarks", ".html"}
Urls == UNION {[1..n -> UrlPieces] : n \in 0..MaxUrlLen}
ExtractInputs == [fn : {"extract_hash"}, done : {FALSE}, url : Urls, out : {<<NULL, NULL>>}]

ApplyExtractHash ==
    /\ probe.fn = "extract_hash" /\ ~probe.done
    /\ probe' = [probe EXCEPT !.done = TRUE, !.out = ExtractHash(probe.url)]

\* An inverted index: None, or a dictionary given by its items in iteration
\* order, each a word with its list of positions. The indexes are those of
\* the texts of MaxPos + 1 places, each place holding a word or nothing
\* (NoWord), with the keys in any order and the lists ascending or
\* descending; one more occurrence (any word at any place, so that a place
\* can be listed twice) may be appended to the word's list.
MaxPos == 3
Words == {"deep", "learning", "models"}
NoWord == "-"
Texts == [0..MaxPos -> Words \cup {NoWord}]
KeyOrders == {o \in [1..Cardinality(Words) -> Words] :
                 \A a, b \in DOMAIN o : a # b => o[a] # o[b]}
Extras == {<<NoWord, 0>>} \cup (Words \X (0..MaxPos))

\* The places of text that hold word w, from place p on, ascending.
RECURSIVE PlacesOf(_, _, _)
PlacesOf(text, w, p) ==
    IF p > MaxPos THEN <<>>
    ELSE (IF text[p] = w THEN <<p>> ELSE <<>>) \o PlacesOf(text, w, p + 1)

Reverse(l) == [j \in DOMAIN l |-> l[Len(l) + 1 - j]]

RECURSIVE IndexItems(_, _, _, _, _)
IndexItems(text, order, j, descending, extra) ==
    IF j > Len(order) THEN <<>>
    ELSE LET w == order[j]
             asc == PlacesOf(text, w, 0)
             listed == (IF descending THEN Reverse(asc) ELSE asc)
                          \o (IF extra[1] = w THEN <<extra[2]>> ELSE <<>>)
         IN  (IF listed = <<>> THEN <<>> ELSE <<<<w, listed>>>>)
                \o IndexItems(text, order, j + 1, descending, extra)

Indexes ==
    {IndexItems(text, order, 1, descending, extra) :
        text \in Texts, order \in KeyOrders, descending \in BOOLEAN, extra \in Extras}
NoText == [none |-> TRUE, text |-> <<>>]
ReconstructInputs ==
    [fn : {"reconstruct"}, done : {FALSE}, none : {FALSE}, index : Indexes, out : {NoText}]
        \cup [fn : {"reconstruct"}, done : {FALSE}, none : {TRUE}, index : {<<>>},
              out : {NoText}]

\* for word, positions in inv_index.items(): for pos in positions:
\*     word_positions.append((pos, word))
RECURSIVE WordPositions(_)
WordPositions(items) ==
    IF items = <<>> THEN <<>>
    ELSE [j \in DOMAIN Head(items)[2] |-> <<Head(items)[2][j], Head(items)[1]>>]
            \o WordPositions(Tail(items))

\* Variant of SortByPosition: the list as it was built.
SortByPosition_AsBuilt(l) == l

\* list.sort(key=lambda x: x[0]): ascending by position, stable.
RECURSIVE InsertByPosition(_, _)
InsertByPosition(x, sorted) ==
    IF sorted = <<>> THEN <<x>>
    ELSE IF x[1] < Head(sorted)[1] THEN <<x>> \o sorted
    ELSE <<Head(sorted)>> \o InsertByPosition(x, Tail(sorted))

RECURSIVE SortFrom(_, _, _)
SortFrom(l, j, sorted) ==
    IF j > Len(l) THEN sorted ELSE SortFrom(l, j + 1, InsertByPosition(l[j], sorted))

SortByPosition(l) == SortFrom(l, 1, <<>>)

\* " ".join(words): the string as the sequence of its pieces.
RECURSIVE Join(_)
Join(words) ==
    IF words = <<>> THEN <<>>
    ELSE IF Len(words) = 1 THEN words
    ELSE <<Head(words), " ">> \o Join(Tail(words))

\* reconstruct_abstract_from_inverted_index.
reconstruct_abstract_from_inverted_index(none, items) ==
    IF none \/ items = <<>> THEN NoText
    ELSE LET word_positions == SortByPosition(WordPositions(items))
         IN  [none |-> FALSE,
              text |-> Join([j \in DOMAIN word_positions |-> word_positions[j][2]])]

ApplyReconstruct ==
    /\ probe.fn = "reconstruct" /\ ~probe.done
    /\ probe' = [probe EXCEPT !.done = TRUE,
                    !.out = reconstruct_abstract_from_inverted_index(probe.none, probe.index)]

\* A DOI as the index gives it: up to MaxDoiLen pieces.
MaxDoiLen == 3
DoiPieces == {RESOLVER, " ", "A", "b"}
RawDois == UNION {[1..n -> DoiPieces] : n \in 0..MaxDoiLen}
NormalizeInputs == [fn : {"normalize"}, done : {FALSE}, doi : RawDois, out : {<<>>}]

ApplyNormalize ==
    /\ probe.fn = "normalize" /\ ~probe.done
    /\ probe' = [probe EXCEPT !.done = TRUE, !.out = NormalizeDoi(probe.doi)]

\* fetch_abstracts_openalex up to its requests, for up to MaxDois papers
\* with a DOI and a batch size of 1 to MaxBatchSize: the DOIs it collects,
\* the batches it sends, the number of requests, and for every collected DOI
\* the key under which the work the source returns for it is stored.
MaxDois == 3
MaxBatchSize == 3
SomeDois == {<<RESOLVER, "A">>, <<" ", RESOLVER, "b", " ">>, <<"A">>, <<"b", "A">>,
             <<RESOLVER>>}
DoiLists == UNION {[1..n -> SomeDois] : n \in 0..MaxDois}
NoBatches == [dois |-> <<>>, batches |-> <<>>, requests |-> 0, keys |-> <<>>]
BatchInputs ==
    [fn : {"batches"}, done : {FALSE}, given : DoiLists, size : 1..MaxBatchSize,
     out : {NoBatches}]

ApplyBatches ==
    /\ probe.fn = "batches" /\ ~probe.done
    /\ LET ps == [j \in DOMAIN probe.given |-> [doi |-> probe.given[j]]]
           dois == BatchDois(ps, [j \in DOMAIN ps |-> j])
           total == TotalBatchesOf(dois, probe.size)
       IN  probe' = [probe EXCEPT
                        !.done = TRUE,
                        !.out = [dois |-> dois,
                                 batches |-> [b \in 1..total |->
                                                BatchOfSize(dois, b - 1, probe.size)],
                                 requests |-> total,
                                 keys |-> [j \in DOMAIN dois |->
                                             WorkDoi(<<RESOLVER>> \o dois[j])]]]

ProbeInputs ==
    SaveBlockInputs \cup ExtractInputs \cup ReconstructInputs \cup NormalizeInputs
        \cup BatchInputs

InitPure ==
    /\ venue = "iclr"
    /\ corpus = <<>>
    /\ ckpt = NoCheckpoint
    /\ papers = <<>>
    /\ pc = "pure"
    /\ ws = <<>>
    /\ i = 0
    /\ fetched = 0
    /\ oa = NoOa
    /\ run = 1
    /\ mode = "none"
    /\ calls = NoHistory
    /\ succ = NoHistory
    /\ reqSeq = <<>>
    /\ lastCall = NoCall
    /\ enrichStart = <<>>
    /\ memo = NoMemo
    /\ phase = "pure"
    /\ outcome = <<>>
    /\ failed = FALSE
    /\ log = {}
    /\ probe \in ProbeInputs

\* The variables of main and of the scenarios, which the functions and the
\* clock leave alone.
program == <<venue, corpus, ckpt, papers, pc, ws, i, fetched, oa, run, mode,
             calls, succ, reqSeq, lastCall, enrichStart, memo, phase, outcome,
             failed, log>>

NextPure ==
    \/ ApplySaveBlock /\ UNCHANGED program
    \/ ApplyExtractHash /\ UNCHANGED program
    \/ ApplyReconstruct /\ UNCHANGED program
    \/ ApplyNormalize /\ UNCHANGED program
    \/ ApplyBatches /\ UNCHANGED program

SpecPure == InitPure /\ [][NextPure]_vars

\* ------------------------------------------------- the pace of requests
\* One execution of main seen by the clock: the pages of the bibliographic
\* index, then the enrichment tiers in their order, each issuing requests
\* to its source. Time is counted in ticks; time.time() is positive, so 0
\* stands for "no request yet". A request is timed by the return of the
\* wait before it (or, without one, by the moment it is issued); whatever
\* else takes time (the response, parsing, the pause between years, saves)
\* is TimePasses.
MaxTime == 9
MaxBatches == 2

Sources == {"dblp", "openreview", "openalex", "semantic_scholar", "neurips"}
Stages == <<"dblp", "search", "fetch", "batch", "title", "lookup", "proceedings", "end">>
SourceOf(stage) ==
    CASE stage = "dblp" -> "dblp"
      [] stage \in {"search", "fetch"} -> "openreview"
      [] stage \in {"batch", "title"} -> "openalex"
      [] stage = "lookup" -> "semantic_scholar"
      [] stage = "proceedings" -> "neurips"

\* REQUEST_DELAY and 1.0 / <SOURCE>_RATE_LIMIT, in ticks.
MinDelay(src) ==
    CASE src = "dblp" -> 3
      [] src = "openreview" -> 2
      [] src = "openalex" -> 1
      [] src = "semantic_scholar" -> 2
      [] src = "neurips" -> 2

\* time.sleep(secs) called at now returns at or after now + secs (by over).
Sleep(now, secs, over) == now + secs + over

\* Variant of rate_limit: it returns the time of the call.
rate_limit_NoWait(last_request_time, min_delay, now, over) == now

\* The argument utils.rate_limit passes to time.sleep, 0 if it does not sleep.
RateLimitSleep(last_request_time, min_delay, now) ==
    IF last_request_time > 0 /\ now - last_request_time < min_delay
    THEN min_delay - (now - last_request_time)
    ELSE 0

\* utils.rate_limit called at now: the time.time() it returns.
rate_limit(last_request_time, min_delay, now, over) ==
    IF last_request_time > 0 /\ now - last_request_time < min_delay
    THEN Sleep(now, min_delay - (now - last_request_time), over)
    ELSE now

NoRateLimit == [called |-> FALSE, last |-> 0, d |-> 0, slept |-> 0, ret |-> 0]
TimingInputs ==
    [fn : {"timing"}, stage : {1}, now : 1..2, last_request_time : {0},
     batch_num : {0}, lastAt : {[src \in Sources |-> 0]},
     gap : {[src \in Sources |-> -1]}, src : {"none"}, waited : {FALSE},
     rl : {NoRateLimit}]

\* requests.get to src at time t; waited tells whether the invocation went
\* through the wait of the source before it.
Request(pr, src, t, waited) ==
    [pr EXCEPT !.now = t,
               !.lastAt[src] = t,
               !.gap[src] = IF pr.lastAt[src] = 0 THEN -1 ELSE t - pr.lastAt[src],
               !.src = src,
               !.waited = waited]

TimePasses ==
    /\ probe.fn = "timing"
    /\ probe.now < MaxTime
    /\ probe' = [probe EXCEPT !.now = @ + 1]

\* The orchestration moves on: from the index pages to tier 0, from a tier to
\* the next.
NextStage ==
    /\ probe.fn = "timing"
    /\ probe.stage < Len(Stages)
    /\ probe' = [probe EXCEPT !.stage = @ + 1]

\* fetch_papers_for_year, one page: rate_limit, then requests.get.
DblpPage(over) ==
    /\ probe.fn = "timing"
    /\ Stages[probe.stage] = "dblp"
    /\ LET d == MinDelay("dblp")
           t == rate_limit(probe.last_request_time, d, probe.now, over)
       IN  /\ t <= MaxTime
           /\ probe' = [Request(probe, "dblp", t, TRUE) EXCEPT
                           !.last_request_time = t,
                           !.rl = [called |-> TRUE, last |-> probe.last_request_time,
                                   d |-> d,
                                   slept |-> RateLimitSleep(probe.last_request_time, d,
                                                            probe.now),
                                   ret |-> t]]

\* A per-paper client, one invocation: time.sleep(1.0 / rate), then requests.get.
ClientRequest(stage, over) ==
    /\ probe.fn = "timing"
    /\ Stages[probe.stage] = stage
    /\ LET src == SourceOf(stage)
           t == Sleep(probe.now, MinDelay(src), over)
       IN  /\ t <= MaxTime
           /\ probe' = Request(probe, src, t, TRUE)

\* fetch_abstracts_openalex, one batch: time.sleep only if batch_num > 0,
\* then requests.get.
BatchRequest(over) ==
    /\ probe.fn = "timing"
    /\ Stages[probe.stage] = "batch"
    /\ probe.batch_num < MaxBatches
    /\ LET t == IF probe.batch_num > 0
                THEN Sleep(probe.now, MinDelay("openalex"), over)
                ELSE probe.now
       IN  /\ t <= MaxTime
           /\ probe' = [Request(probe, "openalex", t, probe.batch_num > 0) EXCEPT
                           !.batch_num = @ + 1]

InitTiming ==
    /\ venue = "iclr"
    /\ corpus = <<>>
    /\ ckpt = NoCheckpoint
    /\ papers = <<>>
    /\ pc = "timing"
    /\ ws = <<>>
    /\ i = 0
    /\ fetched = 0
    /\ oa = NoOa
    /\ run = 1
    /\ mode = "none"
    /\ calls = NoHistory
    /\ succ = NoHistory
    /\ reqSeq = <<>>
    /\ lastCall = NoCall
    /\ enrichStart = <<>>
    /\ memo = NoMemo
    /\ phase = "timing"
    /\ outcome = <<>>
    /\ failed = FALSE
    /\ log = {}
    /\ probe \in TimingInputs

NextTiming ==
    \/ TimePasses /\ UNCHANGED program
    \/ NextStage /\ UNCHANGED program
    \/ (\E over \in 0..1 : DblpPage(over)) /\ UNCHANGED program
    \/ (\E over \in 0..1 : ClientRequest("search", over)) /\ UNCHANGED program
    \/ (\E over \in 0..1 : ClientRequest("fetch", over)) /\ UNCHANGED program
    \/ (\E over \in 0..1 : BatchRequest(over)) /\ UNCHANGED program
    \/ (\E over \in 0..1 : ClientRequest("title", over)) /\ UNCHANGED program
    \/ (\E over \in 0..1 : ClientRequest("lookup", over)) /\ UNCHANGED program
    \/ (\E over \in 0..1 : ClientRequest("proceedings", over)) /\ UNCHANGED program

SpecTiming == InitTiming /\ [][NextTiming]_vars

\* ------------------------------------------- interruption and resumption
\* The scenario: main is started (phase "first") and its process is ended
\* somewhere in the enrichment; main --refetch-abstracts is run to its end on
\* the checkpoint that is on disk (phase "resumed"); then, with no checkpoint
\* on disk, main is run to its end once more (phase "reference"). Every
\* source answers a key the way it answered that key before (memo).
RespDet == {"hit", "empty"}
ResumeTitle(k) == <<"A longer title", "B longer title", "C longer title",
                    "D longer title">>[k]
ResumeEntries(k) ==
    [title : {ResumeTitle(k)},
     doi : {<<>>, DoiHref(k)},
     openreview_id : {NULL, ForumId(k)},
     neurips_proceedings_url : {GoodUrl(k)},
     abstract : {ABSENT},
     citation_count : {ABSENT},
     abstract_source : {ABSENT},
     source_id : {ABSENT}]

\* The paper whose DOI normalises to d.
DoiIndex(d) == CHOOSE k \in 1..Len(UpperOf) : NormalizeDoi(DoiHref(k)) = d

\* The source of tier t answers resp for the key of paper k, as before.
Known(t, k, resp) ==
    /\ memo[t][k] \in {"unset", resp}
    /\ memo' = [memo EXCEPT ![t][k] = resp]
    /\ UNCHANGED <<phase, outcome, probe>>

KnownBatch(works) ==
    LET batch == BatchOf(oa.dois, oa.batch_num)
        at(k) == CHOOSE j \in 1..Len(batch) : DoiIndex(batch[j]) = k
        inBatch == {DoiIndex(batch[j]) : j \in 1..Len(batch)}
    IN  /\ Len(works) = Len(batch)
        /\ \A j \in 1..Len(batch) : memo[2][DoiIndex(batch[j])] \in {"unset", works[j]}
        /\ memo' = [memo EXCEPT ![2] = [k \in DOMAIN @ |->
                                          IF k \in inBatch THEN works[at(k)] ELSE @[k]]]
        /\ UNCHANGED <<phase, outcome, probe>>

\* The locals and histories of a process that starts.
FreshProcess ==
    /\ pc' = "main"
    /\ failed' = FALSE
    /\ log' = {}
    /\ mode' = "none"
    /\ papers' = <<>>
    /\ ws' = <<>>
    /\ i' = 0
    /\ fetched' = 0
    /\ oa' = NoOa
    /\ calls' = NoHistory
    /\ succ' = NoHistory
    /\ reqSeq' = <<>>
    /\ enrichStart' = <<>>

CrashPoints == {"enrich", "t0", "t0loop", "t1", "t1loop", "t2", "t2batch", "t2merge",
                "t3", "t3loop", "t4", "t4loop", "t5", "t5loop", "stats", "finalsave"}

\* The process of the first execution is ended between two steps; what is
\* on disk stays.
Crash ==
    /\ phase = "first"
    /\ pc \in CrashPoints
    /\ ckpt.exists
    /\ phase' = "resumed"
    /\ outcome' = [at |-> pc, papers |-> <<>>, before |-> load_papers]
    /\ FreshProcess
    /\ UNCHANGED <<venue, corpus, ckpt, run, lastCall, memo, probe>>

\* The process of the first execution is ended inside a call of save_papers,
\* here the one that ends the batch tier or main's final one: the file is
\* left as far as it was written.
KilledInSave ==
    /\ phase = "first"
    /\ pc \in {"t2merge", "finalsave"}
    /\ pc = "t2merge" =>
          /\ ENABLE_INCREMENTAL_SAVES
          /\ BatchAdded(papers, ws, oa.abstracts) # {}
    /\ LET saved == IF pc = "t2merge" THEN MergeBatch(papers, ws, oa.abstracts)
                    ELSE papers
       IN  \E n \in 0..Len(saved) : ckpt' = Torn(FileOf(saved), n)
    /\ phase' = "resumed"
    /\ outcome' = [at |-> "save", papers |-> <<>>,
                   before |-> IF ckpt.exists THEN load_papers ELSE <<>>]
    /\ FreshProcess
    /\ UNCHANGED <<venue, corpus, run, lastCall, memo, probe>>

\* The resumed execution has ended; the reference execution starts from
\* nothing on disk.
StartReference ==
    /\ phase = "resumed"
    /\ pc = "done"
    /\ phase' = "reference"
    /\ outcome' = [outcome EXCEPT !.papers = papers]
    /\ ckpt' = NoCheckpoint
    /\ FreshProcess
    /\ UNCHANGED <<venue, corpus, run, lastCall, memo, probe>>

InitResume ==
    /\ venue \in {"iclr", "neurips"}
    /\ corpus \in {s \in [1..MaxPapers -> UNION {ResumeEntries(k) : k \in 1..MaxPapers}] :
                      \A k \in 1..MaxPapers : s[k] \in ResumeEntries(k)}
    /\ ckpt = NoCheckpoint
    /\ papers = <<>>
    /\ pc = "main"
    /\ ws = <<>>
    /\ i = 0
    /\ fetched = 0
    /\ oa = NoOa
    /\ run = 1
    /\ mode = "none"
    /\ calls = NoHistory
    /\ succ = NoHistory
    /\ reqSeq = <<>>
    /\ lastCall = NoCall
    /\ enrichStart = <<>>
    /\ memo = NoMemo
    /\ phase = "first"
    /\ outcome = [at |-> "none", papers |-> <<>>, before |-> <<>>]
    /\ probe = NoProbe
    /\ failed = FALSE
    /\ log = {}

NextResume ==
    \/ phase \in {"first", "reference"} /\ MainNormal("hit") /\ UNCHANGED scenario
    \/ phase = "resumed" /\ MainRefetch /\ UNCHANGED scenario
    \/ EnrichInit /\ UNCHANGED scenario
    \/ Tier0Begin /\ UNCHANGED scenario
    \/ \E resp \in RespDet : Tier0Step(resp) /\ Known(0, ws[i], resp)
    \/ Tier1Begin /\ UNCHANGED scenario
    \/ \E resp \in RespDet : Tier1Step(resp) /\ Known(1, ws[i], resp)
    \/ Tier2Begin /\ UNCHANGED scenario
    \/ \E works \in WorksOf(RespDet) : Tier2Batch("hit", works) /\ KnownBatch(works)
    \/ Tier2Merge /\ UNCHANGED scenario
    \/ Tier3Begin /\ UNCHANGED scenario
    \/ \E resp \in RespDet : Tier3Step(resp) /\ Known(3, ws[i], resp)
    \/ Tier4Begin /\ UNCHANGED scenario
    \/ \E resp \in RespDet : Tier4Step(resp) /\ Known(4, ws[i], resp)
    \/ Tier5Begin /\ UNCHANGED scenario
    \/ \E resp \in RespDet : Tier5Step(resp) /\ Known(5, ws[i], resp)
    \/ FinalStats /\ UNCHANGED scenario
    \/ MainFinalSave /\ UNCHANGED scenario
    \/ Crash
    \/ KilledInSave
    \/ StartReference

SpecResume == InitResume /\ [][NextResume]_vars

\* ================================================================= claims
IsNull(v) == v \in {NULL, ABSENT}
EnrichmentFields(p) ==
    <<p.abstract, p.citation_count, p.abstract_source, p.source_id>>
MinOf(S) == CHOOSE x \in S : \A y \in S : x <= y
InEnrich == pc \in {"t0", "t0loop", "t1", "t1loop", "t2", "t2batch", "t2merge",
                    "t3", "t3loop", "t4", "t4loop", "t5", "t5loop", "stats"}

\* C1: in every state during and after enrich_papers_with_abstracts, for every
\* paper of the in-memory collection and of the checkpoint file,
\* abstract_source is non-null if and only if abstract is non-null.
C1_SourceIffAbstract ==
    /\ \A k \in DOMAIN papers :
          ~IsNull(papers[k].abstract_source) <=> ~IsNull(papers[k].abstract)
    /\ \A k \in DOMAIN ckpt.papers :
          ~IsNull(load_papers[k].abstract_source) <=> ~IsNull(load_papers[k].abstract)

\* A first run over a fresh collection has ended with one paper enriched and
\* another one not.
C1_Witness ==
    /\ run = 1 /\ pc = "done"
    /\ \E k \in DOMAIN enrichStart : enrichStart[k].abstract = ABSENT
    /\ \E k \in DOMAIN papers : ~IsNull(papers[k].abstract)
    /\ \E k \in DOMAIN papers : papers[k].abstract = NULL

\* C2: a paper to which a tier of this run delivered an abstract carries the
\* tag of the first tier, in priority order, whose client was invoked for it
\* and returned a non-null abstract; a paper enriched in this run has such a tier.
C2_TierExclusivity ==
    \A k \in DOMAIN papers :
       /\ succ[k] # {} =>
             /\ succ[k] \subseteq calls[k]
             /\ papers[k].abstract_source = SourceName(MinOf(succ[k]))
             /\ ~IsNull(papers[k].abstract)
       /\ (InEnrich /\ ~IsNull(papers[k].abstract) /\ IsNull(enrichStart[k].abstract))
             => succ[k] # {}

\* A paper that the review platform refused has been enriched by the title
\* search although it also has a DOI and a proceedings URL (later tiers
\* would have been eligible), and the run is past those tiers.
C2_Witness ==
    /\ pc = "stats"
    /\ \E k \in DOMAIN papers :
          /\ papers[k].abstract_source = "openalex_title"
          /\ calls[k] = {1, 2, 3}
          /\ TruthySeq(papers[k].neurips_proceedings_url)
          /\ venue = "neurips"

\* C3: once a paper's abstract is non-null, no later step of the same run
\* writes one of its enrichment fields or invokes a source client for it.
C3_EnrichedIsFinal ==
    [][\A k \in DOMAIN papers :
          (~IsNull(papers[k].abstract) /\ run' = run) =>
             /\ k \in DOMAIN papers'
             /\ EnrichmentFields(papers'[k]) = EnrichmentFields(papers[k])
             /\ calls'[k] = calls[k]]_vars

\* The single-lookup DOI tier is working on one paper while another paper,
\* which has a DOI too, was enriched earlier in this run and is left out.
C3_Witness ==
    /\ pc = "t4loop"
    /\ \E k \in DOMAIN papers :
          /\ succ[k] # {}
          /\ TruthySeq(papers[k].doi)
          /\ k \notin Range(ws)

\* C4: at the moment a tier starts, its working set is exactly the papers
\* whose abstract is null in the collection as it is then and that possess
\* the tier's key field; an empty set lets the tier be passed over.
HasKey(t, p) ==
    CASE t = 1 -> p.openreview_id \notin {NULL, EmptyStr}
      [] t = 2 -> p.doi # <<>>
      [] t = 3 -> p.title \notin {NULL, EmptyStr}
      [] t = 4 -> p.doi # <<>>
      [] t = 5 -> p.neurips_proceedings_url # <<>>
Eligible(t, ps) == {k \in DOMAIN ps : ps[k].abstract = NULL /\ HasKey(t, ps[k])}
C4_WorkingSetIsCurrent ==
    [][\A t \in 1..5 :
          (pc = TierPc(t) /\ TierApplies(t, venue)) =>
             IF pc' = TierPc(NextTier(t))
             THEN Eligible(t, papers) = {}
             ELSE Range(ws') = Eligible(t, papers)]_vars

\* The title search works on a list that leaves out a paper enriched by an
\* earlier tier of this same run and holds another paper.
C4_Witness ==
    /\ pc = "t3loop"
    /\ ws # <<>>
    /\ \E k \in DOMAIN papers :
          /\ succ[k] # {}
          /\ IsNull(enrichStart[k].abstract)
          /\ Truthy(papers[k].title)
          /\ k \notin Range(ws)

\* C5: the requests of a run are issued in tier order: no request of a tier
\* follows a request of a tier with a higher index.
C5_TierOrder ==
    \A a, b \in DOMAIN reqSeq : a < b => reqSeq[a] <= reqSeq[b]

\* A run has issued requests of the id search, the batch tier and the
\* single-lookup tier.
C5_Witness ==
    /\ 0 \in Range(reqSeq)
    /\ 2 \in Range(reqSeq)
    /\ 4 \in Range(reqSeq)

\* C6: no source client is invoked, in a run of
\* enrich_papers_with_abstracts, for a paper that had a non-null abstract
\* when the run received the collection.
C6_RecoverySkip ==
    \A k \in DOMAIN enrichStart :
       ~IsNull(enrichStart[k].abstract) => calls[k] = {}

\* A run resumed from a checkpoint has ended; one paper had its abstract
\* from the start and has keys for several tiers, another one was queried.
C6_Witness ==
    /\ run = 2 /\ pc = "done" /\ mode = "refetch"
    /\ \E k \in DOMAIN enrichStart :
          /\ ~IsNull(enrichStart[k].abstract)
          /\ TruthySeq(enrichStart[k].doi)
          /\ Truthy(enrichStart[k].title)
    /\ \E k \in DOMAIN enrichStart : calls[k] # {}

\* C7: a run of enrich_papers_with_abstracts on a collection leaves every
\* record that came with a non-null abstract exactly as it came, in memory
\* and in every checkpoint the run writes.
C7_Idempotent ==
    \A k \in DOMAIN enrichStart :
       ~IsNull(enrichStart[k].abstract) =>
          /\ papers[k] = enrichStart[k]
          /\ load_papers[k] = enrichStart[k]

\* A second run on the output of a first run has enriched a paper the first
\* run left without an abstract, next to a paper the first run had enriched.
C7_Witness ==
    /\ run = 2 /\ pc = "done"
    /\ \E k \in DOMAIN enrichStart : ~IsNull(enrichStart[k].abstract)
    /\ \E k \in DOMAIN enrichStart :
          IsNull(enrichStart[k].abstract) /\ ~IsNull(papers[k].abstract)

\* C9 (as claimed): with recovery mode enabled and a checkpoint on disk, no
\* step of main removes from the checkpoint file the abstract of a paper
\* that bears one there, and the in-memory collection of a running
\* enrichment holds every abstract the checkpoint file holds.
C9_CheckpointAbstractsKept ==
    [][(ENABLE_RECOVERY_MODE /\ ckpt.exists) =>
          /\ \A k \in DOMAIN ckpt.papers :
                ~IsNull(load_papers[k].abstract) =>
                   /\ k \in DOMAIN ckpt'.papers
                   /\ ~IsNull(load_papers'[k].abstract)
          /\ pc' \notin {"main", "exit", "raised"} =>
                \A k \in DOMAIN ckpt.papers :
                   ~IsNull(load_papers[k].abstract) =>
                      /\ k \in DOMAIN papers'
                      /\ ~IsNull(papers'[k].abstract)]_vars

\* C13: a request that fails for one paper or one batch ends neither the tier
\* nor the run. The step in which it fails leaves the enrichment fields of
\* every paper as they were and moves the tier's loop on to its next paper
\* (batch), or, after the last one, on to the next tier (the merge of the
\* batch tier); no step of the enrichment ends in an exception; and when the
\* last tier has ended, every paper that is still without an abstract and has
\* the key of a tier that runs for the venue has been handed to that tier's
\* client in this run.
LoopPcs == {"t0loop", "t1loop", "t2batch", "t3loop", "t4loop", "t5loop"}
TierOfLoop(l) ==
    CASE l = "t0loop" -> 0 [] l = "t1loop" -> 1 [] l = "t2batch" -> 2
      [] l = "t3loop" -> 3 [] l = "t4loop" -> 4 [] l = "t5loop" -> 5
LoopMovesOn ==
    IF pc = "t2batch"
    THEN /\ oa'.batch_num = oa.batch_num + 1
         /\ pc' = IF oa.batch_num + 1 = TotalBatches(oa.dois) THEN "t2merge" ELSE "t2batch"
    ELSE IF i = Len(ws) THEN pc' = TierPc(TierOfLoop(pc) + 1)
         ELSE pc' = pc /\ i' = i + 1 /\ ws' = ws
Offered(t, k) ==
    /\ TierApplies(t, venue)
    /\ Keeps(t, papers[k])
    /\ t = 5 => Truthy(ExtractHash(papers[k].neurips_proceedings_url)[1])
C13_Step ==
    /\ (pc \in LoopPcs /\ failed') =>
          /\ LoopMovesOn
          /\ \A k \in DOMAIN papers :
                EnrichmentFields(papers'[k]) = EnrichmentFields(papers[k])
    /\ (InEnrich /\ pc # "stats") => pc' # "raised"
    /\ (pc' = "stats" /\ pc # "stats") =>
          \A k \in DOMAIN papers' : \A t \in Tiers :
             Offered(t, k)' => t \in calls'[k]
C13_FailureIsContained == [][C13_Step]_vars
\* A title search failed for the first of two papers, the paper is as it was
\* and the loop stands at the second paper.
C13_Witness ==
    /\ pc = "t3loop" /\ failed /\ i = 2 /\ Len(ws) = 2
    /\ papers[ws[1]].abstract = NULL
    /\ 3 \in calls[ws[1]] /\ 3 \notin succ[ws[1]]

\* C14 (as claimed): with incremental saves enabled, the step that ends a tier
\* in which at least one paper received its abstract leaves on disk a
\* checkpoint of the full collection as it is when the next tier starts.
EndsTier(t) ==
    /\ pc = (IF t = 2 THEN "t2merge" ELSE <<"t1loop", "", "t3loop", "t4loop", "t5loop">>[t])
    /\ pc' = TierPc(t + 1)
C14_CheckpointAtTierEnd ==
    [][\A t \in 1..5 :
         (/\ ENABLE_INCREMENTAL_SAVES
          /\ EndsTier(t)
          /\ \E k \in DOMAIN papers' : t \in succ'[k]) => ckpt' = FileOf(papers')]_vars

\* C15 (as claimed): with incremental saves enabled, whatever the progress-log
\* interval is (0 and non-divisors of the save interval included), the
\* iteration of a per-paper tier in which the success counter reaches a
\* positive multiple of the save interval writes a checkpoint.
C15_SaveAtEveryMultiple ==
    (/\ probe.fn = "save_block" /\ probe.done
     /\ ENABLE_INCREMENTAL_SAVES
     /\ probe.got /\ probe.n > 0 /\ probe.n % probe.save = 0) => probe.saved

\* C16: whenever save_papers has written the checkpoint, load_papers returns
\* a list equal to the saved collection, paper for paper and field for field
\* (a null field is read back as null, a missing key as missing), and the
\* document's total is the length of that collection: nothing of the
\* checkpoint that was there before remains.
C16_RoundTrip ==
    [][(ckpt' # ckpt /\ ckpt'.exists) =>
          /\ load_papers' = papers'
          /\ ckpt'.total_papers = Len(papers')
          /\ Len(ckpt'.papers) = Len(papers')]_vars
\* A checkpoint of two papers, one enriched and one with null enrichment
\* fields, written over an earlier checkpoint in the second run.
C16_Witness ==
    /\ run = 2 /\ pc = "done" /\ ckpt.exists /\ Len(papers) = 2
    /\ papers[1].abstract = TEXT /\ papers[2].abstract = NULL
    /\ papers[2].citation_count = NULL
    /\ load_papers = papers

\* C19: reconstruct_abstract_from_inverted_index returns null for a null or
\* empty index; for a non-empty index whose listed positions are pairwise
\* distinct it returns one word for every listed position, in ascending
\* order of the positions, with a single space between neighbours, and it
\* returns the same text for every order in which the keys are iterated.
Occurrences(index) ==
    {o \in (DOMAIN index) \X (1..(MaxPos + 2)) : o[2] \in DOMAIN index[o[1]][2]}
PositionOf(index, o) == index[o[1]][2][o[2]]
DistinctPositions(index) ==
    \A o1, o2 \in Occurrences(index) :
       o1 # o2 => PositionOf(index, o1) # PositionOf(index, o2)
Reordered(index, f) == [j \in DOMAIN index |-> index[f[j]]]
C19_Reconstruct ==
    (probe.fn = "reconstruct" /\ probe.done) =>
       LET index == probe.index
           occ == Occurrences(index)
           below(o) == Cardinality({q \in occ : PositionOf(index, q) < PositionOf(index, o)})
       IN  /\ (probe.none \/ index = <<>>) <=> probe.out.none
           /\ (~probe.none /\ index # <<>> /\ DistinctPositions(index)) =>
                 /\ Len(probe.out.text) =
                       (IF occ = {} THEN 0 ELSE 2 * Cardinality(occ) - 1)
                 /\ \A o \in occ : probe.out.text[2 * below(o) + 1] = index[o[1]][1]
                 /\ \A r \in 1..(Cardinality(occ) - 1) : probe.out.text[2 * r] = " "
                 /\ \A f \in Permutations(DOMAIN index) :
                       reconstruct_abstract_from_inverted_index(
                           FALSE, Reordered(index, f)) = probe.out
\* {"models": [2], "deep": [0], "learning": [1]} gives "deep learning models".
C19_Witness ==
    /\ probe.fn = "reconstruct" /\ probe.done /\ ~probe.none
    /\ probe.index = <<<<"models", <<2>>>>, <<"deep", <<0>>>>, <<"learning", <<1>>>>>>
    /\ probe.out = [none |-> FALSE,
                    text |-> <<"deep", " ", "learning", " ", "models">>]

\* C20: _extract_hash_from_proceedings_url returns the hash and the track of
\* a place where the URL has /hash/<32 lower-case hex>-Abstract-<track> with
\* track Conference or Datasets_and_Benchmarks; if the URL has no such place
\* but has /hash/<32 lower-case hex>-Abstract, the hash of such a place and
\* the track Conference; and otherwise (null, null).
HashAt(url, j) ==
    /\ j + 2 <= Len(url)
    /\ url[j] = "/hash/" /\ url[j + 1] \in Range(HexHashes) /\ url[j + 2] = "-Abstract"
C20_ExtractHash ==
    (probe.fn = "extract_hash" /\ probe.done) =>
       LET url == probe.url
           track == {<<"-Conference", "Conference">>,
                     <<"-Datasets_and_Benchmarks", "Datasets_and_Benchmarks">>}
           withTrack == {<<j, t>> \in (DOMAIN url) \X track :
                            HashAt(url, j) /\ j + 3 <= Len(url) /\ url[j + 3] = t[1]}
           noTrack == {j \in DOMAIN url : HashAt(url, j)}
       IN  IF withTrack # {}
           THEN \E m \in withTrack : probe.out = <<url[m[1] + 1], m[2][2]>>
           ELSE IF noTrack # {}
           THEN \E j \in noTrack : probe.out = <<url[j + 1], "Conference">>
           ELSE probe.out = <<NULL, NULL>>
\* .../hash/<h1>-Abstract.html, without a track, gives (h1, Conference).
C20_Witness ==
    /\ probe.fn = "extract_hash" /\ probe.done
    /\ probe.url = <<"http://", "/hash/", "h1", "-Abstract", ".html">>
    /\ probe.out = <<"h1", "Conference">>

\* C17: two consecutive requests to one source are at least the source's
\* delay apart (1/rate, REQUEST_DELAY for the bibliographic index); and
\* rate_limit called with a positive last time returns a time that is at
\* least min_delay after it, that time becomes the new last time, and the
\* argument it sleeps with is never negative (time.sleep does not raise).
C17_Spacing ==
    probe.fn = "timing" =>
       /\ \A src \in Sources : probe.gap[src] = -1 \/ probe.gap[src] >= MinDelay(src)
       /\ probe.rl.called =>
             /\ probe.rl.slept >= 0
             /\ probe.last_request_time = probe.rl.ret
             /\ probe.rl.last > 0 => probe.rl.ret - probe.rl.last >= probe.rl.d
\* A second index page for which rate_limit slept, issued exactly the delay
\* after the first, and a title search after the last batch.
C17_Witness ==
    /\ probe.fn = "timing"
    /\ probe.rl.called /\ probe.rl.last > 0 /\ probe.rl.slept > 0
    /\ probe.gap["dblp"] = MinDelay("dblp")
    /\ Stages[probe.stage] = "title" /\ probe.gap["openalex"] = MinDelay("openalex")

\* C18 (as claimed): every request is preceded, in the invocation that issues
\* it, by the wait of its source; the first batch of the batch DOI tier
\* included.
C18_WaitBeforeEveryRequest ==
    (probe.fn = "timing" /\ probe.src # "none") => probe.waited

\* C21: a DOI that has the resolver as its prefix or not at all is normalised
\* to the DOI without that prefix, without leading and trailing blanks and
\* in lower case. The DOIs fetch_abstracts_openalex collects are the
\* non-empty normalised DOIs of its papers in order; they are cut into
\* consecutive batches of 1 to batch-size DOIs that together are the
\* collected list (each DOI in exactly one batch); one request is issued
\* per batch, ceil(n / batch size) in all; and the key under which the work
\* returned for a DOI is stored is that normalised DOI, which is the key the
\* merge looks up.
RECURSIVE Flatten(_)
Flatten(ss) == IF ss = <<>> THEN <<>> ELSE Head(ss) \o Flatten(Tail(ss))
LowerPairs == {<<"A", "a">>, <<"B", "b">>, <<"C", "c">>, <<"D", "d">>}
IsLowerOf(c, d) == <<c, d>> \in LowerPairs \/ (c = d /\ \A pr \in LowerPairs : pr[1] # c)
Blank(s, lo, hi) == \A k \in lo..hi : s[k] = " "
C21_BatchDois ==
    /\ (probe.fn = "normalize" /\ probe.done
          /\ \A k \in 2..Len(probe.doi) : probe.doi[k] # RESOLVER) =>
          LET body == IF probe.doi # <<>> /\ probe.doi[1] = RESOLVER
                      THEN Tail(probe.doi) ELSE probe.doi
              out == probe.out
          IN  \E lo \in 1..(Len(body) + 1) :
                 /\ Blank(body, 1, lo - 1)
                 /\ Blank(body, lo + Len(out), Len(body))
                 /\ lo + Len(out) - 1 <= Len(body)
                 /\ out # <<>> => out[1] # " " /\ out[Len(out)] # " "
                 /\ \A k \in 1..Len(out) : IsLowerOf(body[lo + k - 1], out[k])
    /\ (probe.fn = "batches" /\ probe.done) =>
          LET out == probe.out
              n == Len(out.dois)
              normalised == [j \in DOMAIN probe.given |-> NormalizeDoi(probe.given[j])]
          IN  /\ out.dois = SelectSeq(normalised, LAMBDA d : d # <<>>)
              /\ Flatten(out.batches) = out.dois
              /\ \A b \in DOMAIN out.batches :
                    Len(out.batches[b]) \in 1..probe.size
              /\ out.requests = Len(out.batches)
              /\ out.requests * probe.size >= n
              /\ (out.requests - 1) * probe.size < n \/ (n = 0 /\ out.requests = 0)
              /\ \A j \in 1..n : out.keys[j] = out.dois[j]
\* Three papers, batch size 2: two batches, the second with one DOI; the
\* second paper's DOI had blanks and the resolver prefix.
C21_Witness ==
    /\ probe.fn = "batches" /\ probe.done /\ probe.size = 2
    /\ probe.given = <<<<RESOLVER, "A">>, <<" ", RESOLVER, "b", " ">>, <<"b", "A">>>>
    /\ probe.out.batches = <<<<<<"a">>, <<"b">>>>, <<<<"b", "a">>>>>>
    /\ probe.out.requests = 2

\* C23: a tier that applies to the venue and whose working set is empty is
\* passed over in one step that issues no request, invokes no client,
\* changes no paper, writes no checkpoint, and leaves an entry of the tier
\* in the progress log.
EmptyTier(t) == pc = TierPc(t) /\ TierApplies(t, venue) /\ WorkingSet(t, papers) = <<>>
SkippedQuietly(t) ==
    /\ reqSeq' = reqSeq
    /\ calls' = calls
    /\ papers' = papers
    /\ ckpt' = ckpt
    /\ pc' \in {pc, TierPc(NextTier(t))}
C23_EmptyTierSkippedAndLogged ==
    [][\A t \in Tiers : EmptyTier(t) => (SkippedQuietly(t) /\ (pc' # pc => t \in log'))]_vars

\* C25: every paper, in memory and in the checkpoint file, whose
\* abstract_source is neurips_proceedings has a null citation_count and an
\* abstract that is neither null nor empty; and the proceedings tier starts
\* its loop, invokes its client and issues requests only when the venue is
\* neurips.
FromProceedings(p) ==
    p.abstract_source = "neurips_proceedings" =>
       p.citation_count = NULL /\ p.abstract \notin {NULL, ABSENT, EmptyStr}
C25_ProceedingsTier ==
    /\ \A k \in DOMAIN papers : FromProceedings(papers[k])
    /\ \A k \in DOMAIN ckpt.papers : FromProceedings(load_papers[k])
    /\ (\/ pc = "t5loop"
        \/ \E k \in DOMAIN calls : 5 \in calls[k]
        \/ \E n \in DOMAIN reqSeq : reqSeq[n] = 5) => venue = "neurips"
\* A run for neurips has ended with a paper enriched by the proceedings
\* tier, in memory and in the checkpoint file.
C25_Witness ==
    /\ pc = "done" /\ venue = "neurips"
    /\ \E k \in DOMAIN papers :
          /\ papers[k].abstract_source = "neurips_proceedings"
          /\ 5 \in succ[k]
          /\ load_papers[k].abstract_source = "neurips_proceedings"
          /\ load_papers[k].citation_count = NULL

\* C27 (as claimed): the iteration of a per-paper tier whose fetch produced
\* no abstract writes no checkpoint, whatever the success counter stands at,
\* so that a tier writes at most one periodic checkpoint per multiple of the
\* save interval its counter reaches.
C27_SaveOnlyAfterSuccess ==
    (probe.fn = "save_block" /\ probe.done /\ ~probe.got) => ~probe.saved

\* C30: when enrich_papers_with_abstracts has reported its final statistics,
\* in a first run and in a run on a checkpoint of an earlier one, the count
\* of papers with an abstract and the count without add up to the total, and
\* the five per-source counts add up to the count of papers with an abstract.
C30_StatisticsConsistent ==
    pc \in {"finalsave", "done"} =>
       LET st == final_statistics(papers)
       IN  /\ st.papers_with_abstracts + st.papers_without_abstracts = st.total_papers
           /\ st.papers_without_abstracts >= 0
           /\ st.total_papers = Len(papers)
           /\ st.openreview_count + st.openalex_count + st.openalex_title_count
                 + st.semantic_scholar_count + st.neurips_proceedings_count
                 = st.papers_with_abstracts
\* A second run, started with --refetch-abstracts on the checkpoint of the
\* first, has ended with one paper enriched by the first run, one by the
\* second, and the two by different sources.
C30_Witness ==
    /\ run = 2 /\ mode = "refetch" /\ pc = "done"
    /\ final_statistics(papers).papers_with_abstracts = 2
    /\ final_statistics(papers).openalex_count = 1
    /\ final_statistics(papers).semantic_scholar_count = 1
    /\ \E k \in DOMAIN papers : succ[k] = {} /\ Truthy(papers[k].abstract)
    /\ \E k \in DOMAIN papers : succ[k] # {}

\* C11: a 404 answer to the review-platform fetch, the single DOI lookup or
\* the proceedings fetch makes the client hand back the all-null tuple, with
\* no exception leaving the client and with that one request only.
C11_NotFoundIsNull ==
    (/\ lastCall.client \in {"fetch_abstract_openreview",
                              "fetch_abstract_semantic_scholar",
                              "fetch_neurips_proceedings_abstract"}
     /\ lastCall.requested
     /\ lastCall.resp = "notfound") =>
       /\ lastCall.res = NullResult
       /\ ~lastCall.raised
       /\ lastCall.attempts = 1

\* The single DOI lookup was answered 404 for a DOI.
C11_Witness ==
    /\ lastCall.client = "fetch_abstract_semantic_scholar"
    /\ lastCall.key = <<"A">>
    /\ lastCall.requested
    /\ lastCall.resp = "notfound"
    /\ lastCall.res = NullResult

\* C12 (as claimed): a batch of the batch DOI client whose request fails
\* (time-out, network or HTTP error) is requested again, and when the source
\* answers that next attempt the DOIs of the batch come back with their
\* abstracts.
C12_BatchRetried ==
    (/\ lastCall.client = "fetch_abstracts_openalex"
     /\ lastCall.requested
     /\ lastCall.resp \in Unreachable
     /\ lastCall.later = "hit") =>
       /\ lastCall.attempts > TotalBatches([j \in 1..Len(lastCall.key) |-> <<lastCall.key[j]>>])
       /\ \A j \in 1..Len(lastCall.key) :
             /\ <<lastCall.key[j]>> \in DOMAIN lastCall.dict
             /\ lastCall.dict[<<lastCall.key[j]>>].abstract = TEXT

\* What a client handed to its caller.
Handed(c) == <<c.res, c.id, c.dict>>

\* C10 (as claimed): what a client hands back after a request that the
\* source did not answer (time-out, network error, HTTP error other than 404)
\* differs from what it hands back when the source has no record (404 or an
\* empty result list), and is not the all-null tuple.
C10_UnreachableIsDistinct ==
    (lastCall.requested /\ lastCall.resp \in Unreachable) =>
       /\ \A nr \in NoRecord :
             Handed(lastCall) # Handed(Invoke(lastCall.client, lastCall.key, nr))
       /\ lastCall.client \notin {"search_openreview_by_title", "fetch_abstracts_openalex"}
             => lastCall.res # NullResult

\* ------------------------------------------------- order of the collection
\* The scenario: main is run to its end on the collection as listed (phase
\* "ordered"); then, with no checkpoint on disk, main is run to its end on
\* the same papers listed in another order (phase "permuted"). Every source
\* answers the key of a paper the way it answered that key before, whether
\* with a record, without one, or with a failure.
RespFixed == {"hit", "empty", "timeout"}
Orders == {f \in [1..MaxPapers -> 1..MaxPapers] :
              \A a, b \in 1..MaxPapers : a # b => f[a] # f[b]}

\* The paper a record is of: its title tells.
IdOf(p) == CHOOSE k \in 1..Len(UpperOf) : ResumeTitle(k) = p.title

\* The source of tier t answers resp for the key of the paper at hand.
KnownPaper(t, resp) == Known(t, IdOf(papers[ws[i]]), resp)

\* The first execution has ended; the second starts on the reordered listing.
StartPermuted ==
    /\ phase = "ordered"
    /\ pc = "done"
    /\ phase' = "permuted"
    /\ outcome' = [outcome EXCEPT !.papers = papers]
    /\ corpus' = [k \in DOMAIN corpus |-> corpus[outcome.order[k]]]
    /\ ckpt' = NoCheckpoint
    /\ FreshProcess
    /\ UNCHANGED <<venue, run, lastCall, memo, probe>>

InitOrder ==
    /\ venue \in {"iclr", "neurips"}
    /\ corpus \in {s \in [1..MaxPapers -> UNION {ResumeEntries(k) : k \in 1..MaxPapers}] :
                      \A k \in 1..MaxPapers : s[k] \in ResumeEntries(k)}
    /\ ckpt = NoCheckpoint
    /\ papers = <<>>
    /\ pc = "main"
    /\ ws = <<>>
    /\ i = 0
    /\ fetched = 0
    /\ oa = NoOa
    /\ run = 1
    /\ mode = "none"
    /\ calls = NoHistory
    /\ succ = NoHistory
    /\ reqSeq = <<>>
    /\ lastCall = NoCall
    /\ enrichStart = <<>>
    /\ memo = NoMemo
    /\ phase = "ordered"
    /\ outcome \in [order : Orders, papers : {<<>>}]
    /\ probe = NoProbe
    /\ failed = FALSE
    /\ log = {}

NextOrder ==
    \/ MainNormal("hit") /\ UNCHANGED scenario
    \/ EnrichInit /\ UNCHANGED scenario
    \/ Tier0Begin /\ UNCHANGED scenario
    \/ \E resp \in RespFixed :
          Tier0Search(resp, ForumId(IdOf(papers[ws[i]]))) /\ KnownPaper(0, resp)
    \/ Tier1Begin /\ UNCHANGED scenario
    \/ \E resp \in RespFixed : Tier1Step(resp) /\ KnownPaper(1, resp)
    \/ Tier2Begin /\ UNCHANGED scenario
    \/ \E works \in WorksOf(RespDet) : Tier2Batch("hit", works) /\ KnownBatch(works)
    \/ Tier2Merge /\ UNCHANGED scenario
    \/ Tier3Begin /\ UNCHANGED scenario
    \/ \E resp \in RespFixed : Tier3Step(resp) /\ KnownPaper(3, resp)
    \/ Tier4Begin /\ UNCHANGED scenario
    \/ \E resp \in RespFixed : Tier4Step(resp) /\ KnownPaper(4, resp)
    \/ Tier5Begin /\ UNCHANGED scenario
    \/ \E resp \in RespFixed : Tier5Step(resp) /\ KnownPaper(5, resp)
    \/ FinalStats /\ UNCHANGED scenario
    \/ MainFinalSave /\ UNCHANGED scenario
    \/ StartPermuted

SpecOrder == InitOrder /\ [][NextOrder]_vars

\* C22: with every source answering the key of a paper the same way each
\* time, an execution on the papers listed in another order ends with the
\* same abstract, citation_count, abstract_source and source_id for every
\* paper, and so with the same number of papers with an abstract, as the
\* execution on the original listing.
Covered(ps) == Cardinality({k \in DOMAIN ps : Truthy(ps[k].abstract)})
MaxLacking == 1
LackingEntries(k) ==
    [title : {EmptyStr, "A longer title"},
     doi : {AbsentSeq, NoneSeq, <<>>, DoiHref(k)},
     openreview_id : {ABSENT, NULL, EmptyStr, ForumId(k)},
     neurips_proceedings_url : {AbsentSeq, NoneSeq, <<>>, GoodUrl(k), BadUrl},
     abstract : {ABSENT},
     citation_count : {ABSENT},
     abstract_source : {ABSENT},
     source_id : {ABSENT}]
LackingListings ==
    UNION {{s \in [1..n -> UNION {LackingEntries(k) : k \in 1..n}] :
               \A k \in 1..n : s[k] \in LackingEntries(k)} : n \in 0..MaxLacking}

InitLacking ==
    /\ venue \in Venues
    /\ corpus = <<>>
    /\ \E ps \in LackingListings :
          \/ pc = "main" /\ mode = "none" /\ ckpt = FileOf(ps) /\ papers = <<>>
          \/ pc = "enrich" /\ mode = "direct" /\ ckpt = NoCheckpoint /\ papers = ps
    /\ ws = <<>>
    /\ i = 0
    /\ fetched = 0
    /\ oa = NoOa
    /\ run = 1
    /\ calls = NoHistory
    /\ succ = NoHistory
    /\ reqSeq = <<>>
    /\ lastCall = NoCall
    /\ enrichStart = <<>>
    /\ memo = NoMemo
    /\ phase = "lacking"
    /\ outcome = <<>>
    /\ probe = NoProbe
    /\ failed = FALSE
    /\ log = {}

NextLacking ==
    \/ MainRefetch /\ UNCHANGED scenario
    \/ EnrichInit /\ UNCHANGED scenario
    \/ Tier0Begin /\ UNCHANGED scenario
    \/ (\E resp \in Resp : Tier0Step(resp)) /\ UNCHANGED scenario
    \/ Tier1Begin /\ UNCHANGED scenario
    \/ (\E resp \in Resp : Tier1Step(resp)) /\ UNCHANGED scenario
    \/ Tier2Begin /\ UNCHANGED scenario
    \/ (\E resp \in Resp : \E works \in WorksOf({"hit", "partial", "empty"}) :
          Tier2Batch(resp, works)) /\ UNCHANGED scenario
    \/ Tier2Merge /\ UNCHANGED scenario
    \/ Tier3Begin /\ UNCHANGED scenario
    \/ (\E resp \in Resp : Tier3Step(resp)) /\ UNCHANGED scenario
    \/ Tier4Begin /\ UNCHANGED scenario
    \/ (\E resp \in Resp : Tier4Step(resp)) /\ UNCHANGED scenario
    \/ Tier5Begin /\ UNCHANGED scenario
    \/ (\E resp \in Resp : Tier5Step(resp)) /\ UNCHANGED scenario
    \/ FinalStats /\ UNCHANGED scenario
    \/ mode # "direct" /\ MainFinalSave /\ UNCHANGED scenario

SpecLacking == InitLacking /\ [][NextLacking]_vars

\* C24: on a collection whose papers lack any of doi, openreview_id and
\* neurips_proceedings_url (key missing, null or empty) the run raises
\* nothing (an exception is raised only when there is no paper at all); a client of a tier is invoked for a paper only if the paper has
\* the tier's key (the id search: only if it has no forum id), and a request
\* of a tier is issued only if some paper has the key the request is made
\* with; and after the last tier a paper to which no tier delivered an
\* abstract has abstract, citation_count, abstract_source and source_id null.
Has(v) == v \notin {ABSENT, NULL, EmptyStr}
HasSeq(v) == v # <<>> /\ v # <<NULL>> /\ v # <<ABSENT>>
KeyPresent(t, p) ==
    CASE t = 0 -> Has(p.title)
      [] t = 1 -> Has(p.openreview_id)
      [] t = 2 -> HasSeq(p.doi)
      [] t = 3 -> Has(p.title)
      [] t = 4 -> HasSeq(p.doi)
      [] t = 5 -> HasSeq(p.neurips_proceedings_url)
C24_LackingKeysTolerated ==
    /\ pc # "exit"
    /\ pc = "raised" => Len(papers) = 0
    /\ \A k \in DOMAIN papers :
          /\ \A t \in calls[k] \ {0} : KeyPresent(t, papers[k])
          /\ 0 \in calls[k] => ~Has(enrichStart[k].openreview_id)
    /\ \A n \in DOMAIN reqSeq : \E k \in DOMAIN papers : KeyPresent(reqSeq[n], papers[k])
    /\ pc \in {"stats", "finalsave", "done"} =>
          \A k \in DOMAIN papers :
             succ[k] = {} =>
                /\ papers[k].abstract = NULL
                /\ papers[k].citation_count = NULL
                /\ papers[k].abstract_source = NULL
                /\ papers[k].source_id = NULL
\* A run has ended on a paper whose doi key is missing, whose forum id is
\* empty and whose proceedings URL is null: only the title search was
\* invoked for it, which had no abstract, and the paper is unenriched.
C24_Witness ==
    /\ phase = "lacking" /\ pc = "done"
    /\ enrichStart[1].doi = AbsentSeq
    /\ enrichStart[1].openreview_id = EmptyStr
    /\ enrichStart[1].neurips_proceedings_url = NoneSeq
    /\ calls[1] = {3}
    /\ succ[1] = {}
    /\ papers[1].abstract = NULL

\* C26: after the process was ended at any point, a call of save_papers
\* included, the checkpoint file is absent or a complete document with all
\* the papers its metadata counts; the restarted main --refetch-abstracts
\* does not end in an exception; and every abstract the file held before
\* the process was ended is in the file still.
C26_CrashSafeCheckpoint ==
    phase = "resumed" =>
       /\ ckpt.exists =>
             /\ ckpt.complete
             /\ Len(ckpt.papers) = ckpt.total_papers
             /\ \A k \in DOMAIN outcome.before :
                   Truthy(outcome.before[k].abstract) =>
                      /\ k \in DOMAIN ckpt.papers
                      /\ load_papers[k].abstract = outcome.before[k].abstract
       /\ pc # "raised"

\* C28 (as claimed): on every collection, the one without papers included,
\* neither main --refetch-abstracts nor enrich_papers_with_abstracts ends in
\* an exception.
C28_NeverRaises == phase = "lacking" => pc # "raised"

\* ------------------------------------------------------ one run to its end
\* One execution of main from its start on a listing of titles that are
\* empty or long, every source answering each request in any way. main is
\* one sequential process: a step that can be taken is taken.
InitRun ==
    /\ Init
    /\ \A k \in DOMAIN corpus : corpus[k].title # "Short"

NextRun ==
    \/ (\E resp \in {"hit", "timeout"} : MainNormal(resp)) /\ UNCHANGED scenario
    \/ MainRefetch /\ UNCHANGED scenario
    \/ EnrichInit /\ UNCHANGED scenario
    \/ Tier0Begin /\ UNCHANGED scenario
    \/ (\E resp \in Resp : Tier0Step(resp)) /\ UNCHANGED scenario
    \/ Tier1Begin /\ UNCHANGED scenario
    \/ (\E resp \in Resp : Tier1Step(resp)) /\ UNCHANGED scenario
    \/ Tier2Begin /\ UNCHANGED scenario
    \/ (\E resp \in Resp : \E works \in WorksOf({"hit", "partial", "empty"}) :
          Tier2Batch(resp, works)) /\ UNCHANGED scenario
    \/ Tier2Merge /\ UNCHANGED scenario
    \/ Tier3Begin /\ UNCHANGED scenario
    \/ (\E resp \in Resp : Tier3Step(resp)) /\ UNCHANGED scenario
    \/ Tier4Begin /\ UNCHANGED scenario
    \/ (\E resp \in Resp : Tier4Step(resp)) /\ UNCHANGED scenario
    \/ Tier5Begin /\ UNCHANGED scenario
    \/ (\E resp \in Resp : Tier5Step(resp)) /\ UNCHANGED scenario
    \/ FinalStats /\ UNCHANGED scenario
    \/ MainFinalSave /\ UNCHANGED scenario

SpecRun == InitRun /\ [][NextRun]_vars /\ WF_vars(NextRun)

\* C29: in one run the iteration of a per-paper tier that issues a request
\* is for a paper the tier's client was not invoked for before, and the
\* batch tier issues one request per batch of the DOIs it collected; so the
\* requests of a tier number at most the papers (the batches, for the batch
\* tier); the run ends, whatever the sources answer; and at its end every
\* paper has an abstract with its source tag or has all four enrichment
\* fields null.
RequestsOf(t) == Cardinality({n \in DOMAIN reqSeq : reqSeq[n] = t})
OncePerPaper ==
    (pc \in LoopPcs \ {"t2batch"} /\ reqSeq' # reqSeq) =>
       /\ TierOfLoop(pc) \notin calls[ws[i]]
       /\ TierOfLoop(pc) \in calls'[ws[i]]
RequestsBounded ==
    /\ \A t \in Tiers \ {2} : RequestsOf(t) <= Len(papers)
    /\ pc = "t2batch" => RequestsOf(2) = oa.batch_num /\ oa.batch_num < TotalBatches(oa.dois)
    /\ pc = "t2merge" => RequestsOf(2) = TotalBatches(oa.dois)
    /\ RequestsOf(2) * OPENALEX_BATCH_SIZE < Len(papers) + OPENALEX_BATCH_SIZE
EnrichedOrNot(p) ==
    \/ Truthy(p.abstract) /\ Truthy(p.abstract_source)
    \/ /\ p.abstract = NULL /\ p.citation_count = NULL
       /\ p.abstract_source = NULL /\ p.source_id = NULL
C29_BoundedAndTerminates ==
    /\ [][OncePerPaper]_vars
    /\ [](RequestsBounded)
    /\ [](pc = "done" => \A k \in DOMAIN papers : EnrichedOrNot(papers[k]))
    /\ <>(pc \in {"done", "exit", "raised"})
\* A run has ended after eight requests in five tiers, some of which
\* failed, with one paper enriched and one not.
C29_Witness ==
    /\ pc = "done"
    /\ Len(papers) = 2
    /\ Len(reqSeq) >= 8
    /\ \E t \in Tiers : \E k \in DOMAIN papers : t \in calls[k] \ succ[k]
    /\ \E k \in DOMAIN papers : Truthy(papers[k].abstract)
    /\ \E k \in DOMAIN papers : papers[k].abstract = NULL

\* C8: with every source answering a key the same way each time, an
\* execution that is ended at any point of the enrichment and resumed from
\* the checkpoint on disk ends with the same abstract, citation_count,
\* abstract_source and source_id for every paper as an execution that runs
\* through.
C8_Resumable ==
    (phase = "reference" /\ pc = "done") =>
       /\ DOMAIN papers = DOMAIN outcome.papers
       /\ \A k \in DOMAIN papers :
             EnrichmentFields(papers[k]) = EnrichmentFields(outcome.papers[k])

\* The first execution was ended inside the title-search tier with one
\* paper's abstract on disk, and both later executions have ended with two
\* papers enriched by different tiers.
C8_Witness ==
    /\ phase = "reference" /\ pc = "done"
    /\ outcome.at = "t3loop"
    /\ \E k \in DOMAIN papers : papers[k].abstract_source = "openalex"
    /\ \E k \in DOMAIN papers : papers[k].abstract_source = "semantic_scholar"

====
